---- MODULE Spec2Model ----
(***************************************************************************)
(* A model of the authorization and data-integrity rule set of rvlp:       *)
(* the public.users table with its constraints, row-level-security         *)
(* policies and triggers (001_create_users_rls.sql), the signup trigger    *)
(* handle_new_user (002_create_signup_trigger.sql), the directory function *)
(* get_all_public_profiles (003_get_all_public_profiles.sql), the          *)
(* projection helpers of lib/users.ts, and the pick'em tables votes,       *)
(* points and breakdown_pts with the view vote_stats_public                *)
(* (004_create_vct_schema.sql).  Every SQL statement is one atomic         *)
(* transaction, as in the database.  The created_at and updated_at columns *)
(* (and the trigger that stamps updated_at) and the metadata columns carry *)
(* no rule of the rule set and are left out of the rows.                   *)
(*                                                                         *)
(* Spec is the identity store; SpecVotes is the prediction ledger,         *)
(* SpecStats the vote statistics and SpecPoints the leaderboard            *)
(* aggregator, each over provisioned principals.  SpecBackend is the       *)
(* direct table access to points, breakdown_pts, stars, sub_events and     *)
(* matches by every database role, and SpecCascade the referential actions *)
(* of deleting a principal or a team.  SpecSite is the web application:    *)
(* the OAuth callback route, the dashboard layout and the logout button;   *)
(* SpecSiteFair adds the fairness under which a pending signOut settles.   *)
(***************************************************************************)
EXTENDS Naturals, Integers, Sequences, FiniteSets, TLC

VARIABLES authUsers, users, last,
          teams, events, matches, votes, points, breakdown_pts, now,
          sub_events, stars,
          request, isLoading, logout, router

ledger == <<teams, events, matches, votes, points, breakdown_pts, now>>

awards == <<sub_events, stars>>

web == <<request, isLoading, logout, router>>

vars == <<authUsers, users, last, ledger, awards, web>>

(***************************************************************************)
(* Bounds and value domains                                                *)
(***************************************************************************)
MaxPrincipals == 2

NULL == "NULL"

Principals == {"u" \o ToString(i) : i \in 1..MaxPrincipals}

ProviderIds == {"d1", "d2"}

UserNames == {"alice", "bob"}

Emails == {"e@x"}

FullNames == {"Full"}

AvatarUrls == {"img"}

Nullable(S) == S \cup {NULL}

(***************************************************************************)
(* Sessions: the database role a statement runs as, and auth.uid()         *)
(***************************************************************************)
AnonSession == [role |-> "anon", uid |-> NULL]

ServiceSession == [role |-> "service_role", uid |-> NULL]

AuthSession(p) == [role |-> "authenticated", uid |-> p]

TriggerSession == [role |-> "definer", uid |-> NULL]

OrdinaryRoles == {"anon", "authenticated"}

Sessions == {AnonSession, ServiceSession} \cup {AuthSession(p) : p \in authUsers}

(***************************************************************************)
(* public.users: columns and constraints                                   *)
(***************************************************************************)
UserRow(uid, prov, uname, email, dname, avatar) ==
  [user_id |-> uid, provider_id |-> prov, oauth_username |-> uname,
   email |-> email, display_name |-> dname, avatar_url |-> avatar]

NotNullViolation(row) ==
  \/ row.user_id = NULL
  \/ row.provider_id = NULL
  \/ row.oauth_username = NULL

users_pkey_dropped(tbl, row) == FALSE

users_pkey(tbl, row) == \E r \in tbl : r.user_id = row.user_id

users_oauth_username_key_dropped(tbl, row) == FALSE

users_oauth_username_key(tbl, row) ==
  \E r \in tbl : r.oauth_username = row.oauth_username

users_provider_id_key(tbl, row) ==
  \E r \in tbl : r.provider_id = row.provider_id

UniqueViolation(tbl, row) ==
  \/ users_pkey(tbl, row)
  \/ users_oauth_username_key(tbl, row)
  \/ users_provider_id_key(tbl, row)

users_user_id_fkey(auth, row) == row.user_id \in auth

RowOf(tbl, p) == CHOOSE r \in tbl : r.user_id = p

HasRow(tbl, p) == \E r \in tbl : r.user_id = p

(***************************************************************************)
(* Row-level security on public.users (001, section 4).  service_role and  *)
(* SECURITY DEFINER functions bypass RLS; a role no policy names is denied.*)
(***************************************************************************)
BypassesRls(session) == session.role \in {"service_role", "definer"}

users_select_any_profile(session, row) == session.role = "authenticated"

users_select_own_profile(session, row) ==
  session.role = "authenticated" /\ session.uid = row.user_id

users_insert_any(session, row) == session.role = "authenticated"

users_self_insert(session, row) ==
  session.role = "authenticated" /\ session.uid = row.user_id

users_update_own_profile(session, row) ==
  session.role = "authenticated" /\ session.uid = row.user_id

users_delete_policy(session, row) == FALSE

(***************************************************************************)
(* The BEFORE UPDATE trigger ensure_immutable_fields (001, section 6): the *)
(* message of the exception it raises, or "none"                           *)
(***************************************************************************)
prevent_system_field_updates_no_username(old, new) ==
  IF old.user_id # new.user_id THEN "user_id cannot be changed"
  ELSE IF old.provider_id # new.provider_id THEN "provider_id cannot be changed"
  ELSE "none"

prevent_system_field_updates(old, new) ==
  IF old.user_id # new.user_id THEN "user_id cannot be changed"
  ELSE IF old.provider_id # new.provider_id THEN "provider_id cannot be changed"
  ELSE IF old.oauth_username # new.oauth_username
    THEN "oauth_username cannot be changed"
  ELSE "none"

(***************************************************************************)
(* The visibility projection: the view of 001 section 5 and lib/users.ts   *)
(***************************************************************************)
toPublicProfile_spread(profile) == profile

toPublicProfile(profile) ==
  [user_id |-> profile.user_id,
   oauth_username |-> profile.oauth_username,
   display_name |-> profile.display_name,
   avatar_url |-> profile.avatar_url]

user_profiles_public(tbl) ==
  {[user_id |-> r.user_id,
    oauth_username |-> r.oauth_username,
    display_name |-> r.display_name,
    avatar_url |-> r.avatar_url] : r \in tbl}

(***************************************************************************)
(* ORDER BY oauth_username ASC: text order of the user names of the model  *)
(***************************************************************************)
UserNameRank(n) == IF n = "alice" THEN 1 ELSE IF n = "bob" THEN 2 ELSE 3

RECURSIVE OrderByUserName_desc(_)
OrderByUserName_desc(S) ==
  IF S = {} THEN << >>
  ELSE LET m == CHOOSE x \in S : \A y \in S :
                  UserNameRank(x.oauth_username) >= UserNameRank(y.oauth_username)
       IN  <<m>> \o OrderByUserName_desc(S \ {m})

RECURSIVE OrderByUserName(_)
OrderByUserName(S) ==
  IF S = {} THEN << >>
  ELSE LET m == CHOOSE x \in S : \A y \in S :
                  UserNameRank(x.oauth_username) <= UserNameRank(y.oauth_username)
       IN  <<m>> \o OrderByUserName(S \ {m})

(***************************************************************************)
(* EXECUTE privilege on get_all_public_profiles (003, section 1): the      *)
(* grantees left after the GRANT and the two REVOKEs, applied in order to  *)
(* the grantees a new function starts with.                                *)
(***************************************************************************)
DefaultExecuteGrantees == {"PUBLIC", "anon", "authenticated", "service_role"}

Grant(acl, grantee) == acl \cup {grantee}

Revoke(acl, grantee) == acl \ {grantee}

ExecuteGrantees_anon_kept ==
  Revoke(Grant(DefaultExecuteGrantees, "authenticated"), "PUBLIC")

ExecuteGrantees ==
  Revoke(Revoke(Grant(DefaultExecuteGrantees, "authenticated"), "PUBLIC"), "anon")

HasExecute(session) ==
  session.role \in ExecuteGrantees \/ "PUBLIC" \in ExecuteGrantees

get_all_public_profiles(tbl) == OrderByUserName(user_profiles_public(tbl))

(***************************************************************************)
(* INSERT INTO public.users: the checks in the order the database applies  *)
(* them to a new row (row policy, NOT NULL, unique indexes, foreign key).  *)
(* The result names the statement's outcome and the table afterwards.      *)
(***************************************************************************)
InsertUsers(session, tbl, auth, row) ==
  IF ~BypassesRls(session) /\ ~users_self_insert(session, row)
    THEN [stmt |-> "rls_violation", tbl |-> tbl]
  ELSE IF NotNullViolation(row)
    THEN [stmt |-> "not_null_violation", tbl |-> tbl]
  ELSE IF UniqueViolation(tbl, row)
    THEN [stmt |-> "unique_violation", tbl |-> tbl]
  ELSE IF ~users_user_id_fkey(auth, row)
    THEN [stmt |-> "foreign_key_violation", tbl |-> tbl]
  ELSE [stmt |-> "inserted", tbl |-> tbl \cup {row}]

OnConflictDoUpdate(tbl, row) ==
  {r \in tbl : r.user_id # row.user_id} \cup {row}

OnConflictDoNothing(tbl, row) == tbl

InsertUsersOnConflictDoNothing(session, tbl, auth, row) ==
  IF users_pkey(tbl, row)
    THEN [stmt |-> "do_nothing", tbl |-> OnConflictDoNothing(tbl, row)]
    ELSE InsertUsers(session, tbl, auth, row)

(***************************************************************************)
(* handle_new_user (002): the AFTER INSERT trigger of auth.users.  newUser  *)
(* is the new auth.users row: id, email and raw_user_meta_data.            *)
(***************************************************************************)
COALESCE3_skips_second(a, b, c) == IF a # NULL THEN a ELSE c

COALESCE3(a, b, c) == IF a # NULL THEN a ELSE IF b # NULL THEN b ELSE c

MissingRequiredClaim(newUser) ==
  \/ newUser.raw_user_meta_data.provider_id = NULL
  \/ newUser.raw_user_meta_data.name = NULL

ProfileOf(newUser) ==
  UserRow(newUser.id,
          newUser.raw_user_meta_data.provider_id,
          newUser.raw_user_meta_data.name,
          newUser.email,
          COALESCE3(newUser.raw_user_meta_data.full_name, newUser.email,
                    newUser.raw_user_meta_data.name),
          newUser.raw_user_meta_data.avatar_url)

WhenUniqueViolation_unhandled(ins) ==
  IF ins.stmt \in {"inserted", "do_nothing"}
    THEN [outcome |-> "return_new", raised |-> "none",
          stmt |-> ins.stmt, tbl |-> ins.tbl]
  ELSE [outcome |-> "exception", raised |-> ins.stmt,
        stmt |-> ins.stmt, tbl |-> ins.tbl]

WhenUniqueViolation(ins) ==
  IF ins.stmt = "unique_violation"
    THEN [outcome |-> "return_new", raised |-> "NOTICE unique constraint conflict",
          stmt |-> ins.stmt, tbl |-> ins.tbl]
  ELSE IF ins.stmt \in {"inserted", "do_nothing"}
    THEN [outcome |-> "return_new", raised |-> "none",
          stmt |-> ins.stmt, tbl |-> ins.tbl]
  ELSE [outcome |-> "exception", raised |-> ins.stmt,
        stmt |-> ins.stmt, tbl |-> ins.tbl]

handle_new_user(tbl, auth, newUser) ==
  IF MissingRequiredClaim(newUser)
    THEN [outcome |-> "exception",
          raised |-> "EXCEPTION missing provider_id or name",
          stmt |-> "none", tbl |-> tbl]
    ELSE WhenUniqueViolation(
           InsertUsersOnConflictDoNothing(TriggerSession, tbl, auth,
                                          ProfileOf(newUser)))

(***************************************************************************)
(* UPDATE public.users SET ... WHERE user_id = target.  A row the UPDATE   *)
(* policy hides is not updated (no error); for a visible row the BEFORE    *)
(* UPDATE trigger ensure_immutable_fields runs first, then the policy's    *)
(* WITH CHECK and the constraints.                                         *)
(***************************************************************************)
SetValue(old, set, c) == IF c \in DOMAIN set THEN set[c] ELSE old[c]

ApplySet(old, set) ==
  UserRow(SetValue(old, set, "user_id"),
          SetValue(old, set, "provider_id"),
          SetValue(old, set, "oauth_username"),
          SetValue(old, set, "email"),
          SetValue(old, set, "display_name"),
          SetValue(old, set, "avatar_url"))

UpdateUsers(session, tbl, auth, target, set) ==
  IF ~HasRow(tbl, target)
    THEN [stmt |-> "no_rows", raised |-> "none", tbl |-> tbl]
  ELSE
    LET old == RowOf(tbl, target)
        new == ApplySet(old, set)
        immutable == prevent_system_field_updates(old, new)
        rest == tbl \ {old}
    IN  IF ~BypassesRls(session) /\ ~users_update_own_profile(session, old)
          THEN [stmt |-> "no_rows", raised |-> "none", tbl |-> tbl]
        ELSE IF immutable # "none"
          THEN [stmt |-> "exception", raised |-> immutable, tbl |-> tbl]
        ELSE IF ~BypassesRls(session) /\ ~users_update_own_profile(session, new)
          THEN [stmt |-> "rls_violation", raised |-> "none", tbl |-> tbl]
        ELSE IF NotNullViolation(new)
          THEN [stmt |-> "not_null_violation", raised |-> "none", tbl |-> tbl]
        ELSE IF UniqueViolation(rest, new)
          THEN [stmt |-> "unique_violation", raised |-> "none", tbl |-> tbl]
        ELSE IF ~users_user_id_fkey(auth, new)
          THEN [stmt |-> "foreign_key_violation", raised |-> "none", tbl |-> tbl]
        ELSE [stmt |-> "updated", raised |-> "none", tbl |-> rest \cup {new}]

(***************************************************************************)
(* SELECT * FROM public.users WHERE user_id = target, and DELETE           *)
(***************************************************************************)
SelectUsers(session, tbl, target) ==
  {r \in tbl : /\ r.user_id = target
               /\ (BypassesRls(session) \/ users_select_own_profile(session, r))}

DeleteUsers(session, tbl, target) ==
  {r \in tbl : ~(/\ r.user_id = target
                 /\ (BypassesRls(session) \/ users_delete_policy(session, r)))}

(***************************************************************************)
(* ON DELETE CASCADE of users_user_id_fkey                                 *)
(***************************************************************************)
CascadeDelete(tbl, p) == {r \in tbl : r.user_id # p}

(***************************************************************************)
(* ON DELETE CASCADE and ON DELETE SET NULL of a foreign key column: what  *)
(* is left of the child table once the referenced rows of parent are gone. *)
(***************************************************************************)
References(parent, key, value) == \E q \in parent : q[key] = value

OnDeleteCascade_no_action(child, column, parent, key) == child

OnDeleteCascade(child, column, parent, key) ==
  {r \in child : References(parent, key, r[column])}

SetNull(r, column, parent, key) ==
  IF r[column] = NULL \/ References(parent, key, r[column])
    THEN r ELSE [r EXCEPT ![column] = NULL]

(***************************************************************************)
(* Inputs of the operations                                                *)
(***************************************************************************)
MetaData ==
  [provider_id : Nullable(ProviderIds), name : Nullable(UserNames),
   full_name : Nullable(FullNames), avatar_url : Nullable(AvatarUrls)]

NewAuthUsers(p) ==
  [id : {p}, email : Nullable(Emails), raw_user_meta_data : MetaData]

InsertRows ==
  {UserRow(p, prov, uname, NULL, NULL, NULL) :
     p \in Principals, prov \in Nullable(ProviderIds), uname \in UserNames}
  \cup
  {UserRow(p, prov, uname, e, d, NULL) :
     p \in Principals, prov \in ProviderIds, uname \in UserNames,
     e \in Emails, d \in FullNames}

SetDomain(c) ==
  IF c = "user_id" THEN Principals
  ELSE IF c = "provider_id" THEN ProviderIds
  ELSE IF c = "oauth_username" THEN UserNames
  ELSE IF c = "email" THEN Nullable(Emails)
  ELSE IF c = "display_name" THEN Nullable(FullNames)
  ELSE Nullable(AvatarUrls)

ImmutableColumns == {"user_id", "provider_id", "oauth_username"}

MutableColumns == {"email", "display_name", "avatar_url"}

SetColumnSets ==
  {{c} : c \in ImmutableColumns \cup MutableColumns}
  \cup {{"display_name", "oauth_username"}}

SetClauses ==
  UNION {{f \in [S -> Nullable(Principals \cup ProviderIds \cup UserNames
                               \cup Emails \cup FullNames \cup AvatarUrls)] :
            \A c \in S : f[c] \in SetDomain(c)} : S \in SetColumnSets}

NoArg == [none |-> NULL]

Outcome(op, session, target, arg, stmt, result, raised, rows, listing) ==
  [op |-> op, session |-> session, target |-> target, arg |-> arg,
   stmt |-> stmt, result |-> result, raised |-> raised,
   rows |-> rows, listing |-> listing]

Idle == Outcome("idle", TriggerSession, NULL, NoArg, "none", "ok", "none",
                {}, << >>)

(***************************************************************************)
(* The web application at rest: no request in flight on the server, the    *)
(* LogoutButton mounted on the dashboard with isLoading = useState(false)  *)
(***************************************************************************)
DashboardPath == <<"/", "dashboard">>

LoginPath == <<"/", "auth", "/", "login">>

NoRequest == [handler |-> "none"]

InitWeb ==
  /\ request = NoRequest
  /\ isLoading = FALSE
  /\ logout = "idle"
  /\ router = DashboardPath

(***************************************************************************)
(* Initial state: empty auth.users and public.users, as after migration    *)
(***************************************************************************)
Init ==
  /\ authUsers = {}
  /\ users = {}
  /\ last = Idle
  /\ teams = {}
  /\ events = {}
  /\ matches = {}
  /\ votes = {}
  /\ points = {}
  /\ breakdown_pts = {}
  /\ now = 0
  /\ sub_events = {}
  /\ stars = {}
  /\ InitWeb

(***************************************************************************)
(* Signup: the identity provider inserts the new auth.users row; the       *)
(* AFTER INSERT trigger on_auth_user_created runs handle_new_user in the   *)
(* same transaction, so an exception it raises rolls the signup back.      *)
(***************************************************************************)
Signup(p, newUser) ==
  /\ last = Idle
  /\ p \notin authUsers
  /\ LET r == handle_new_user(users, authUsers \cup {p}, newUser)
     IN  IF r.outcome = "exception"
           THEN /\ UNCHANGED <<authUsers, users>>
                /\ last' = Outcome("signup", TriggerSession, p, newUser, r.stmt,
                                   "rolled_back", r.raised, {}, << >>)
           ELSE /\ authUsers' = authUsers \cup {p}
                /\ users' = r.tbl
                /\ last' = Outcome("signup", TriggerSession, p, newUser, r.stmt,
                                   "ok", r.raised, {}, << >>)
  /\ UNCHANGED ledger
  /\ UNCHANGED <<awards, web>>

(***************************************************************************)
(* A redelivered signup event: handle_new_user runs again for an           *)
(* auth.users row that already exists.                                     *)
(***************************************************************************)
RetryProvisioning(p, newUser) ==
  /\ last = Idle
  /\ p \in authUsers
  /\ LET r == handle_new_user(users, authUsers, newUser)
     IN  IF r.outcome = "exception"
           THEN /\ UNCHANGED users
                /\ last' = Outcome("retry", TriggerSession, p, newUser, r.stmt,
                                   "rolled_back", r.raised, {}, << >>)
           ELSE /\ users' = r.tbl
                /\ last' = Outcome("retry", TriggerSession, p, newUser, r.stmt,
                                   "ok", r.raised, {}, << >>)
  /\ UNCHANGED authUsers
  /\ UNCHANGED ledger
  /\ UNCHANGED <<awards, web>>

(***************************************************************************)
(* supabase.from('users').insert(row) by a client session                  *)
(***************************************************************************)
Insert(session, row) ==
  /\ last = Idle
  /\ LET r == InsertUsers(session, users, authUsers, row)
     IN  /\ users' = r.tbl
         /\ last' = Outcome("insert", session, row.user_id, row, r.stmt,
                            IF r.stmt = "inserted" THEN "ok" ELSE "error",
                            "none", {}, << >>)
  /\ UNCHANGED authUsers
  /\ UNCHANGED ledger
  /\ UNCHANGED <<awards, web>>

Update(session, target, set) ==
  /\ last = Idle
  /\ LET r == UpdateUsers(session, users, authUsers, target, set)
     IN  /\ users' = r.tbl
         /\ last' = Outcome("update", session, target, set, r.stmt,
                            IF r.stmt \in {"updated", "no_rows"}
                              THEN "ok" ELSE "error",
                            r.raised, {}, << >>)
  /\ UNCHANGED authUsers
  /\ UNCHANGED ledger
  /\ UNCHANGED <<awards, web>>

Select(session, target) ==
  /\ last = Idle
  /\ last' = Outcome("select", session, target, NoArg, "select", "ok", "none",
                     SelectUsers(session, users, target), << >>)
  /\ UNCHANGED <<authUsers, users>>
  /\ UNCHANGED ledger
  /\ UNCHANGED <<awards, web>>

Delete(session, target) ==
  /\ last = Idle
  /\ users' = DeleteUsers(session, users, target)
  /\ last' = Outcome("delete", session, target, NoArg,
                     IF users' = users THEN "no_rows" ELSE "deleted",
                     "ok", "none", {}, << >>)
  /\ UNCHANGED authUsers
  /\ UNCHANGED ledger
  /\ UNCHANGED <<awards, web>>

(***************************************************************************)
(* supabase.rpc('get_all_public_profiles')                                 *)
(***************************************************************************)
Rpc(session) ==
  /\ last = Idle
  /\ IF HasExecute(session)
       THEN last' = Outcome("rpc", session, NULL, NoArg, "select", "ok", "none",
                            {}, get_all_public_profiles(users))
       ELSE last' = Outcome("rpc", session, NULL, NoArg, "none",
                            "permission_denied", "none", {}, << >>)
  /\ UNCHANGED <<authUsers, users>>
  /\ UNCHANGED ledger
  /\ UNCHANGED <<awards, web>>

(***************************************************************************)
(* Deletion of the principal upstream (auth.users), with its cascade:      *)
(* users_user_id_fkey removes the users row, the user_id keys of votes,    *)
(* points and stars remove the principal's rows, and the parent_points_id  *)
(* key of breakdown_pts removes the breakdowns of the removed points rows. *)
(***************************************************************************)
DeleteAuthUser(p) ==
  /\ last = Idle
  /\ p \in authUsers
  /\ authUsers' = authUsers \ {p}
  /\ users' = CascadeDelete(users, p)
  /\ votes' = OnDeleteCascade(votes, "user_id", users', "user_id")
  /\ points' = OnDeleteCascade(points, "user_id", users', "user_id")
  /\ breakdown_pts' = OnDeleteCascade(breakdown_pts, "parent_points_id",
                                      points', "id")
  /\ stars' = OnDeleteCascade(stars, "user_id", users', "user_id")
  /\ last' = Outcome("delete_auth_user", ServiceSession, p, NoArg, "deleted",
                     "ok", "none", {}, << >>)
  /\ UNCHANGED <<teams, events, matches, now, sub_events, web>>

(***************************************************************************)
(* The caller has read the response of its statement                       *)
(***************************************************************************)
Return ==
  /\ last # Idle
  /\ last' = Idle
  /\ UNCHANGED <<authUsers, users>>
  /\ UNCHANGED ledger
  /\ UNCHANGED <<awards, web>>

Next ==
  \/ last = Idle /\ \E p \in Principals : \E n \in NewAuthUsers(p) : Signup(p, n)
  \/ last = Idle /\ \E p \in Principals : \E n \in NewAuthUsers(p) :
                      RetryProvisioning(p, n)
  \/ last = Idle /\ \E s \in Sessions : \E row \in InsertRows : Insert(s, row)
  \/ last = Idle /\ \E s \in Sessions : \E t \in Principals :
                      \E set \in SetClauses : Update(s, t, set)
  \/ last = Idle /\ \E s \in Sessions : \E t \in Principals : Select(s, t)
  \/ last = Idle /\ \E s \in Sessions : \E t \in Principals : Delete(s, t)
  \/ last = Idle /\ \E s \in Sessions : Rpc(s)
  \/ last = Idle /\ \E p \in Principals : DeleteAuthUser(p)
  \/ Return

Spec == Init /\ [][Next]_vars

(***************************************************************************)
(* Properties                                                              *)
(***************************************************************************)
CollidesWithOther(tbl, row) ==
  \E r \in tbl : /\ r.user_id # row.user_id
                 /\ \/ r.provider_id = row.provider_id
                    \/ r.oauth_username = row.oauth_username

Provisioned(l) == l.op \in {"signup", "retry"}

(* C1: in every reachable state, whatever provisioning, redelivered        *)
(* provisioning, insert and update statements have run, public.users holds *)
(* at most one row for each principal id.                                  *)
C1_OneRecordPerPrincipal ==
  \A r1, r2 \in users : r1.user_id = r2.user_id => r1 = r2

C1_Witness ==
  /\ last.op = "retry"
  /\ last.stmt = "do_nothing"
  /\ HasRow(users, last.target)
  /\ ProfileOf(last.arg) \notin users

(* C2: a signup whose claims lack the provider id or the name is logged,   *)
(* creates no Identity Record, and still succeeds: the new auth.users row  *)
(* exists afterwards.                                                      *)
C2_MissingClaimSignupSucceeds ==
  (last.op = "signup" /\ MissingRequiredClaim(last.arg))
    => /\ last.raised # "none"
       /\ ~HasRow(users, last.target)
       /\ last.result = "ok"
       /\ last.target \in authUsers

(* C3: provisioning a principal that has no record, with claims whose      *)
(* provider id or name belongs to another principal's record, raises only  *)
(* the NOTICE, leaves public.users unchanged (no record for the new        *)
(* principal) and does not fail the signup: the auth.users row exists.     *)
C3_CollisionSwallowed ==
  [][(/\ Provisioned(last')
      /\ ~MissingRequiredClaim(last'.arg)
      /\ ~HasRow(users, last'.target)
      /\ CollidesWithOther(users, ProfileOf(last'.arg)))
     => /\ users' = users
        /\ last'.raised = "NOTICE unique constraint conflict"
        /\ last'.result = "ok"
        /\ last'.target \in authUsers']_vars

C3_Witness ==
  /\ last.op = "signup"
  /\ last.stmt = "unique_violation"
  /\ last.target \in authUsers
  /\ ~HasRow(users, last.target)
  /\ CollidesWithOther(users, ProfileOf(last.arg))

(* C4: running provisioning again for a principal that already has a       *)
(* record, with any claims that carry provider id and name, changes no     *)
(* record, adds none, and raises nothing.                                  *)
C4_ReprovisionNoOp ==
  [][(/\ last'.op = "retry"
      /\ ~MissingRequiredClaim(last'.arg)
      /\ HasRow(users, last'.target))
     => /\ users' = users
        /\ last'.result = "ok"
        /\ last'.raised = "none"]_vars

C4_Witness ==
  /\ last.op = "retry"
  /\ last.stmt = "do_nothing"
  /\ last.result = "ok"
  /\ ProfileOf(last.arg) \notin users
  /\ \E r \in users : /\ r.user_id = last.target
                      /\ r.oauth_username # last.arg.raw_user_meta_data.name

InsertedRow(l) == IF l.op = "insert" THEN l.arg ELSE ProfileOf(l.arg)

AttemptsInsert(l) ==
  \/ l.op = "insert" /\ ~NotNullViolation(l.arg)
  \/ Provisioned(l) /\ ~MissingRequiredClaim(l.arg)

AdmittedByPolicy(l) ==
  BypassesRls(l.session) \/ users_self_insert(l.session, InsertedRow(l))

ChangesImmutable(old, set) ==
  \E c \in DOMAIN set \cap ImmutableColumns : set[c] # old[c]

ReachesRow(session, old) ==
  BypassesRls(session) \/ users_update_own_profile(session, old)

(* C6: an UPDATE of an existing record that changes user_id, provider_id   *)
(* or oauth_username raises the trigger's exception and leaves the record  *)
(* (the whole table) unchanged, also when the same statement sets a        *)
(* mutable column; an UPDATE by the owning principal that sets only        *)
(* display_name, avatar_url or email succeeds and stores the new values.   *)
(* The trigger runs for an UPDATE that reaches the row (the owner's or the *)
(* service role's); another principal's UPDATE matches no row, and the     *)
(* record is unchanged then as well.                                       *)
C6_ImmutableFields ==
  [][(last'.op = "update" /\ HasRow(users, last'.target))
     => LET old == RowOf(users, last'.target)
            set == last'.arg
        IN  /\ ChangesImmutable(old, set)
               => /\ users' = users
                  /\ ReachesRow(last'.session, old)
                       => /\ last'.result = "error"
                          /\ last'.raised \in
                               {"user_id cannot be changed",
                                "provider_id cannot be changed",
                                "oauth_username cannot be changed"}
            /\ (/\ last'.session = AuthSession(last'.target)
                /\ DOMAIN set \subseteq MutableColumns)
               => /\ last'.result = "ok"
                  /\ last'.stmt = "updated"
                  /\ users' = (users \ {old}) \cup {ApplySet(old, set)}]_vars

C6_Witness ==
  /\ last.op = "update"
  /\ last.session = AuthSession(last.target)
  /\ HasRow(users, last.target)
  /\ DOMAIN last.arg = {"display_name", "oauth_username"}
  /\ last.arg["display_name"] # RowOf(users, last.target).display_name
  /\ last.raised = "oauth_username cannot be changed"

Created(p) == HasRow(users', p) /\ ~HasRow(users, p)

(* C7, as the spec states it: no statement of an ordinary (anonymous or    *)
(* authenticated) principal brings an Identity Record into existence.      *)
C7_OnlyTriggerCreates ==
  [][last'.session.role \in OrdinaryRoles
     => \A p \in Principals : ~Created(p)]_vars

(* C7, amended: a record comes into existence through handle_new_user,     *)
(* with provider_id and oauth_username taken from the claims, or through   *)
(* an INSERT by the authenticated principal itself for its own principal   *)
(* id while it has no record (or by the service role); no ordinary         *)
(* principal creates a record for another principal.                       *)
C7_CreatedByTriggerOrSelf ==
  [][\A p \in Principals : Created(p)
       => LET row == RowOf(users', p)
          IN  \/ /\ Provisioned(last')
                 /\ last'.target = p
                 /\ row = ProfileOf(last'.arg)
              \/ /\ last'.op = "insert"
                 /\ last'.session \in {AuthSession(p), ServiceSession}
                 /\ row = last'.arg]_vars

C7_Witness ==
  /\ last.op = "insert"
  /\ last.stmt = "inserted"
  /\ last.session = AuthSession(last.target)
  /\ last.arg \in users

(* C8: a statement of an ordinary principal reads, inserts and updates a   *)
(* raw public.users row only when the row's user_id is the caller's own    *)
(* authenticated id (an anonymous caller touches none), and no statement   *)
(* of an ordinary principal removes a row.                                 *)
C8_OwnRowOnly ==
  [][last'.session.role \in OrdinaryRoles
     => /\ \A r \in last'.rows :
             last'.session = AuthSession(r.user_id)
        /\ \A r \in users' \ users :
             last'.session = AuthSession(r.user_id)
        /\ \A r \in users \ users' :
             /\ last'.session = AuthSession(r.user_id)
             /\ HasRow(users', r.user_id)]_vars

C8_Witness ==
  /\ last.op = "select"
  /\ last.session.role = "authenticated"
  /\ last.session.uid # last.target
  /\ HasRow(users, last.target)
  /\ HasRow(users, last.session.uid)
  /\ last.rows = {}

PublicFields == {"user_id", "oauth_username", "display_name", "avatar_url"}

CopiesPublicFields(out, row) ==
  /\ DOMAIN out = PublicFields
  /\ \A f \in PublicFields : out[f] = row[f]

(* C9: for every Identity Record, toPublicProfile and the                  *)
(* user_profiles_public view yield exactly the fields user_id,             *)
(* oauth_username, display_name and avatar_url with the record's values,   *)
(* and so never email or provider_id; the directory listing carries only   *)
(* such entries.                                                           *)
C9_PublicProjection ==
  /\ \A r \in users : CopiesPublicFields(toPublicProfile(r), r)
  /\ \A v \in user_profiles_public(users) :
       \E r \in users : CopiesPublicFields(v, r)
  /\ \A r \in users :
       \E v \in user_profiles_public(users) : CopiesPublicFields(v, r)
  /\ last.op = "rpc"
       => \A i \in 1..Len(last.listing) :
            \E r \in users : CopiesPublicFields(last.listing[i], r)

C9_Witness ==
  /\ last.op = "rpc"
  /\ Len(last.listing) > 0
  /\ \E r \in users : /\ r.email # NULL
                      /\ r.display_name # NULL
                      /\ r.avatar_url # NULL

(* C10: get_all_public_profiles runs only for an authenticated caller: an  *)
(* anonymous caller is refused and obtains no listing, and of the ordinary *)
(* roles only "authenticated" obtains one.                                 *)
C10_ListingAuthenticatedOnly ==
  last.op = "rpc"
    => /\ last.session.role = "anon"
            => last.result = "permission_denied" /\ last.listing = << >>
       /\ (last.result = "ok" /\ last.session.role \in OrdinaryRoles)
            => last.session.role = "authenticated"
       /\ last.session.role = "authenticated" => last.result = "ok"

C10_Witness ==
  /\ last.op = "rpc"
  /\ last.session.role = "anon"
  /\ last.result = "permission_denied"
  /\ users # {}

(* C11: a listing that get_all_public_profiles returns has exactly one     *)
(* entry per row of public.users, whoever the caller is (the rows of other *)
(* principals included), has no entry for a principal without a row, and   *)
(* is in ascending order of oauth_username.                                *)
C11_ListingOnePerRecordSorted ==
  (last.op = "rpc" /\ last.result = "ok")
    => LET l == last.listing
       IN  /\ Len(l) = Cardinality(users)
           /\ \A r \in users : \E i \in 1..Len(l) :
                /\ l[i].user_id = r.user_id
                /\ l[i].oauth_username = r.oauth_username
           /\ \A i \in 1..Len(l) : HasRow(users, l[i].user_id)
           /\ \A i, j \in 1..Len(l) :
                i < j => UserNameRank(l[i].oauth_username)
                           <= UserNameRank(l[j].oauth_username)

C11_Witness ==
  /\ last.op = "rpc"
  /\ last.result = "ok"
  /\ Len(last.listing) = 2
  /\ last.listing[1].oauth_username = "alice"
  /\ last.listing[1].user_id # last.session.uid

(***************************************************************************)
(* The pick'em schema (004_create_vct_schema.sql).  Rows carry the columns *)
(* that the constraints, policies, triggers and views of the schema read;  *)
(* uuids are opaque, so the model writes them as short names.  The instant *)
(* a match starts (match_date + match_time) is one number on the clock     *)
(* now; the column holds the set of its values, empty when it is NULL.     *)
(***************************************************************************)
TeamIds == {"t1", "t2", "t3"}

EventIds == {"e1", "e2"}

MatchIds == {"m1", "m2", "m3"}

TeamRow(id) == [id |-> id, name |-> "name_" \o id, short_name |-> "sn_" \o id]

EventRow(id) == [id |-> id, name |-> "name_" \o id]

MatchRow(id, event, team1, team2, start) ==
  [id |-> id, event_id |-> event, team1_id |-> team1, team2_id |-> team2,
   winner_id |-> NULL, match_date |-> start]

VoteRow(id, uid, mid, tid) ==
  [id |-> id, user_id |-> uid, match_id |-> mid, vote_team_id |-> tid]

(***************************************************************************)
(* id uuid PRIMARY KEY DEFAULT gen_random_uuid(): a value no row of the    *)
(* table has.  The model names it after the row's key and the number of    *)
(* rows that already hold that key.                                        *)
(***************************************************************************)
SameKey(tbl, row) ==
  {r \in tbl : r.user_id = row.user_id /\ r.match_id = row.match_id}

gen_random_uuid(tbl, row) ==
  <<row.user_id, row.match_id, Cardinality(SameKey(tbl, row))>>

(***************************************************************************)
(* public.votes: constraints                                               *)
(***************************************************************************)
votes_unique_user_match_dropped(tbl, row) == FALSE

votes_unique_user_match(tbl, row) == SameKey(tbl, row) # {}

votes_user_id_fkey(usersTbl, row) ==
  \E u \in usersTbl : u.user_id = row.user_id

votes_match_id_fkey_dropped(matchesTbl, row) == TRUE

votes_match_id_fkey(matchesTbl, row) ==
  \E m \in matchesTbl : m.id = row.match_id

votes_vote_team_id_fkey(teamsTbl, row) ==
  row.vote_team_id = NULL \/ \E t \in teamsTbl : t.id = row.vote_team_id

VotesForeignKeyViolation(usersTbl, matchesTbl, teamsTbl, row) ==
  \/ ~votes_user_id_fkey(usersTbl, row)
  \/ ~votes_match_id_fkey(matchesTbl, row)
  \/ ~votes_vote_team_id_fkey(teamsTbl, row)

(***************************************************************************)
(* public.votes: row-level security.  votes_read_all is TO PUBLIC, the     *)
(* write policies are TO authenticated: no write policy applies to anon.   *)
(***************************************************************************)
votes_read_all(session, row) == TRUE

votes_insert_any(session, row) == session.role = "authenticated"

votes_insert_own(session, row) ==
  session.role = "authenticated" /\ row.user_id = session.uid

votes_update_own(session, row) ==
  session.role = "authenticated" /\ row.user_id = session.uid

votes_delete_own(session, row) ==
  session.role = "authenticated" /\ row.user_id = session.uid

(***************************************************************************)
(* BEFORE UPDATE trigger ensure_immutable_on_votes                         *)
(***************************************************************************)
prevent_votes_updates_no_match(old, new) ==
  IF old.user_id # new.user_id THEN "user_id cannot be changed"
  ELSE "none"

prevent_votes_updates(old, new) ==
  IF old.user_id # new.user_id THEN "user_id cannot be changed"
  ELSE IF old.match_id # new.match_id THEN "match_id cannot be changed"
  ELSE "none"

(***************************************************************************)
(* UPDATE of one existing votes row to new: the checks in the order the    *)
(* database applies them (BEFORE UPDATE trigger, WITH CHECK of the update  *)
(* policy, unique index, foreign keys).                                    *)
(***************************************************************************)
UpdateVoteRow(session, tbl, usersTbl, matchesTbl, teamsTbl, old, new) ==
  LET immutable == prevent_votes_updates(old, new)
      rest == tbl \ {old}
  IN  IF immutable # "none"
        THEN [stmt |-> "exception", raised |-> immutable, tbl |-> tbl]
      ELSE IF ~BypassesRls(session) /\ ~votes_update_own(session, new)
        THEN [stmt |-> "rls_violation", raised |-> "none", tbl |-> tbl]
      ELSE IF votes_unique_user_match(rest, new)
        THEN [stmt |-> "unique_violation", raised |-> "none", tbl |-> tbl]
      ELSE IF VotesForeignKeyViolation(usersTbl, matchesTbl, teamsTbl, new)
        THEN [stmt |-> "foreign_key_violation", raised |-> "none", tbl |-> tbl]
      ELSE [stmt |-> "updated", raised |-> "none", tbl |-> rest \cup {new}]

(***************************************************************************)
(* INSERT INTO votes (user_id, match_id, vote_team_id) ... ON CONFLICT     *)
(* (user_id, match_id) DO UPDATE SET vote_team_id = EXCLUDED.vote_team_id: *)
(* the upsert of a prediction.  The insert policy is checked on the        *)
(* proposed row; a row that holds the key sends the statement to its       *)
(* update path, where a row the update policy hides is an error.           *)
(***************************************************************************)
UpsertVotes(session, tbl, usersTbl, matchesTbl, teamsTbl, row) ==
  IF ~BypassesRls(session) /\ ~votes_insert_own(session, row)
    THEN [stmt |-> "rls_violation", raised |-> "none", tbl |-> tbl]
  ELSE IF votes_unique_user_match(tbl, row)
    THEN LET old == CHOOSE r \in tbl :
                      r.user_id = row.user_id /\ r.match_id = row.match_id
             new == [old EXCEPT !.vote_team_id = row.vote_team_id]
         IN  IF ~BypassesRls(session) /\ ~votes_update_own(session, old)
               THEN [stmt |-> "rls_violation", raised |-> "none", tbl |-> tbl]
               ELSE UpdateVoteRow(session, tbl, usersTbl, matchesTbl, teamsTbl,
                                  old, new)
  ELSE IF VotesForeignKeyViolation(usersTbl, matchesTbl, teamsTbl, row)
    THEN [stmt |-> "foreign_key_violation", raised |-> "none", tbl |-> tbl]
  ELSE [stmt |-> "inserted", raised |-> "none",
        tbl |-> tbl \cup {VoteRow(gen_random_uuid(tbl, row), row.user_id,
                                  row.match_id, row.vote_team_id)}]

(***************************************************************************)
(* UPDATE votes SET ... WHERE id = target: a row the update policy hides   *)
(* is not updated and no error is raised.                                  *)
(***************************************************************************)
ApplyVoteSet(old, set) ==
  VoteRow(old.id, SetValue(old, set, "user_id"), SetValue(old, set, "match_id"),
          SetValue(old, set, "vote_team_id"))

UpdateVotes(session, tbl, usersTbl, matchesTbl, teamsTbl, target, set) ==
  IF ~\E r \in tbl : r.id = target
    THEN [stmt |-> "no_rows", raised |-> "none", tbl |-> tbl]
  ELSE
    LET old == CHOOSE r \in tbl : r.id = target
    IN  IF ~BypassesRls(session) /\ ~votes_update_own(session, old)
          THEN [stmt |-> "no_rows", raised |-> "none", tbl |-> tbl]
          ELSE UpdateVoteRow(session, tbl, usersTbl, matchesTbl, teamsTbl,
                             old, ApplyVoteSet(old, set))

(***************************************************************************)
(* DELETE FROM votes WHERE id = target, and SELECT ... WHERE match_id = m  *)
(***************************************************************************)
DeleteVotes(session, tbl, target) ==
  {r \in tbl : ~(/\ r.id = target
                 /\ (BypassesRls(session) \/ votes_delete_own(session, r)))}

SelectVotes(session, tbl, m) ==
  {r \in tbl : /\ r.match_id = m
               /\ (BypassesRls(session) \/ votes_read_all(session, r))}

(***************************************************************************)
(* vote_stats_public: the votes that name a team, grouped by match and     *)
(* team, with the count c of each group and ROUND(c * 100.0 / SUM(c) OVER  *)
(* (PARTITION BY match_id), 2).  A numeric with two decimals is written as *)
(* its number of hundredths (33.33 is 3333); ROUND rounds half away from   *)
(* zero.                                                                   *)
(***************************************************************************)
WhereVoteTeamIsNotNull(tbl) == {v \in tbl : v.vote_team_id # NULL}

GroupByMatchTeam(tbl) == {<<v.match_id, v.vote_team_id>> : v \in tbl}

CountStar(tbl, m, t) ==
  Cardinality({v \in tbl : v.match_id = m /\ v.vote_team_id = t})

SumCountOver_unpartitioned(tbl, m) == Cardinality(tbl)

SumCountOver(tbl, m) == Cardinality({v \in tbl : v.match_id = m})

ROUND2(num, den) == (2 * 100 * num + den) \div (2 * den)

VotePercentage_integer_division(count, total) ==
  100 * ((count * 100) \div total)

VotePercentage(count, total) == ROUND2(count * 100, total)

LeftJoinTeam(teamsTbl, t, column) ==
  IF \E r \in teamsTbl : r.id = t
    THEN (CHOOSE r \in teamsTbl : r.id = t)[column]
    ELSE NULL

vote_stats_public(tbl, teamsTbl) ==
  LET counted == WhereVoteTeamIsNotNull(tbl)
  IN  {[match_id |-> g[1],
        vote_team_id |-> g[2],
        team_name |-> LeftJoinTeam(teamsTbl, g[2], "name"),
        team_short_name |-> LeftJoinTeam(teamsTbl, g[2], "short_name"),
        vote_count |-> CountStar(counted, g[1], g[2]),
        vote_percentage |-> VotePercentage(CountStar(counted, g[1], g[2]),
                                           SumCountOver(counted, g[1]))] :
         g \in GroupByMatchTeam(counted)}

(***************************************************************************)
(* Vote locking: "enforced in application layer (check match_date +        *)
(* match_time)".  A match is locked once its scheduled start has passed.   *)
(***************************************************************************)
isLocked(matchesTbl, m, clock) ==
  \E r \in matchesTbl :
    r.id = m /\ \E start \in r.match_date : start <= clock

(***************************************************************************)
(* The prediction ledger on its own: every principal is provisioned, the   *)
(* backend has ingested two teams and two matches (m1 starts at instant 1, *)
(* m2 is not scheduled yet); team t3 and match m3 do not exist.            *)
(***************************************************************************)
ProvisionedUser(p) ==
  ProfileOf([id |-> p, email |-> NULL,
             raw_user_meta_data |->
               [provider_id |-> "d_" \o p, name |-> "n_" \o p,
                full_name |-> NULL, avatar_url |-> NULL]])

IngestedEvents == {EventRow("e1")}

IngestedTeams == {TeamRow("t1"), TeamRow("t2")}

IngestedMatches ==
  {MatchRow("m1", "e1", "t1", "t2", {1}), MatchRow("m2", "e1", "t1", "t2", {})}

ScheduledStarts == UNION {r.match_date : r \in IngestedMatches}

VoteInputs ==
  [user_id : Principals, match_id : MatchIds, vote_team_id : Nullable(TeamIds)]

VoteIds == {<<u, m.id, 0>> : u \in Principals, m \in IngestedMatches}

VoteSetClauses ==
  {[vote_team_id |-> t] : t \in Nullable(TeamIds)}
  \cup {[user_id |-> u] : u \in Principals}
  \cup {[match_id |-> m] : m \in MatchIds}

InitVotes ==
  /\ authUsers = Principals
  /\ users = {ProvisionedUser(p) : p \in Principals}
  /\ last = Idle
  /\ teams = IngestedTeams
  /\ events = IngestedEvents
  /\ matches = IngestedMatches
  /\ votes = {}
  /\ points = {}
  /\ breakdown_pts = {}
  /\ now = 0
  /\ sub_events = {}
  /\ stars = {}
  /\ InitWeb

(***************************************************************************)
(* castOrUpdate: supabase.from('votes').upsert(row, {onConflict:           *)
(* 'user_id,match_id'}) by a client session.  Nothing on this path reads   *)
(* the schedule of the match.                                              *)
(***************************************************************************)
CastOrUpdate(session, row) ==
  /\ last = Idle
  /\ LET r == UpsertVotes(session, votes, users, matches, teams, row)
     IN  /\ votes' = r.tbl
         /\ last' = Outcome("castOrUpdate", session,
                            <<row.user_id, row.match_id>>, row, r.stmt,
                            IF r.stmt \in {"inserted", "updated"}
                              THEN "ok" ELSE "error",
                            r.raised, {}, << >>)
  /\ UNCHANGED <<authUsers, users, teams, events, matches, points,
                 breakdown_pts, now>>
  /\ UNCHANGED <<awards, web>>

UpdateVote(session, target, set) ==
  /\ last = Idle
  /\ LET r == UpdateVotes(session, votes, users, matches, teams, target, set)
     IN  /\ votes' = r.tbl
         /\ last' = Outcome("updateVote", session, target, set, r.stmt,
                            IF r.stmt \in {"updated", "no_rows"}
                              THEN "ok" ELSE "error",
                            r.raised, {}, << >>)
  /\ UNCHANGED <<authUsers, users, teams, events, matches, points,
                 breakdown_pts, now>>
  /\ UNCHANGED <<awards, web>>

(***************************************************************************)
(* retract: supabase.from('votes').delete().eq('id', target)               *)
(***************************************************************************)
Retract(session, target) ==
  /\ last = Idle
  /\ votes' = DeleteVotes(session, votes, target)
  /\ last' = Outcome("retract", session, target, NoArg,
                     IF votes' = votes THEN "no_rows" ELSE "deleted",
                     "ok", "none", {}, << >>)
  /\ UNCHANGED <<authUsers, users, teams, events, matches, points,
                 breakdown_pts, now>>
  /\ UNCHANGED <<awards, web>>

(***************************************************************************)
(* listForMatch and stats: reads of votes and of vote_stats_public         *)
(***************************************************************************)
ListForMatch(session, m) ==
  /\ last = Idle
  /\ last' = Outcome("listForMatch", session, m, NoArg, "select", "ok", "none",
                     SelectVotes(session, votes, m), << >>)
  /\ UNCHANGED <<authUsers, users, ledger>>
  /\ UNCHANGED <<awards, web>>

Stats(session, m) ==
  /\ last = Idle
  /\ last' = Outcome("stats", session, m, NoArg, "select", "ok", "none",
                     {s \in vote_stats_public(votes, teams) : s.match_id = m},
                     << >>)
  /\ UNCHANGED <<authUsers, users, ledger>>
  /\ UNCHANGED <<awards, web>>

(***************************************************************************)
(* Time passes: the scheduled start of a match is reached                  *)
(***************************************************************************)
Tick ==
  /\ last = Idle
  /\ \E d \in ScheduledStarts : now < d
  /\ now' = now + 1
  /\ UNCHANGED <<authUsers, users, last, teams, events, matches, votes, points,
                 breakdown_pts>>
  /\ UNCHANGED <<awards, web>>

NextVotes ==
  \/ last = Idle /\ \E s \in Sessions : \E row \in VoteInputs :
                      CastOrUpdate(s, row)
  \/ last = Idle /\ \E s \in Sessions : \E t \in VoteIds :
                      \E set \in VoteSetClauses : UpdateVote(s, t, set)
  \/ last = Idle /\ \E s \in Sessions : \E t \in VoteIds : Retract(s, t)
  \/ last = Idle /\ \E s \in Sessions : \E m \in MatchIds : ListForMatch(s, m)
  \/ Tick
  \/ Return

SpecVotes == InitVotes /\ [][NextVotes]_vars

(***************************************************************************)
(* Properties of the prediction ledger (SpecVotes)                         *)
(***************************************************************************)
VoteWrites == {"castOrUpdate", "updateVote", "retract"}

TakesEffect(l) == l.stmt \in {"inserted", "updated", "deleted"}

Affected(before, after) == (before \ after) \cup (after \ before)

(* C12: at no time do two votes rows hold the same (user_id, match_id).    *)
(* After a castOrUpdate that succeeds exactly one row holds the pair of    *)
(* the call, its vote_team_id is the team of the call, and the rows of     *)
(* other pairs are as before; a castOrUpdate that fails changes nothing,   *)
(* so the row keeps the team of the last call that succeeded.  Two         *)
(* submissions of the same pair are two such statements in either order.   *)
C12_OneVoteLastWriteWins ==
  [][/\ \A v, w \in votes' :
          (v.user_id = w.user_id /\ v.match_id = w.match_id) => v = w
     /\ last'.op = "castOrUpdate"
          => LET row == last'.arg
                 mine == SameKey(votes', row)
             IN  IF last'.result = "ok"
                   THEN /\ Cardinality(mine) = 1
                        /\ \A v \in mine : v.vote_team_id = row.vote_team_id
                        /\ votes' \ mine = votes \ SameKey(votes, row)
                   ELSE votes' = votes]_vars

C12_Witness ==
  /\ last.op = "castOrUpdate"
  /\ last.session = AuthSession(last.arg.user_id)
  /\ last.stmt = "updated"
  /\ last.arg.vote_team_id = "t2"
  /\ Cardinality(SameKey(votes, last.arg)) = 1
  /\ \A v \in SameKey(votes, last.arg) : v.vote_team_id = "t2"
  /\ Cardinality(votes) > 1

C14_LockedMatchRejected ==
  [][(last'.op \in {"castOrUpdate", "retract"}
        /\ isLocked(matches, last'.target[2], now))
     => /\ ~TakesEffect(last')
        /\ votes' = votes]_vars

ChangesOwnership(old, set) ==
  \E c \in DOMAIN set \cap {"user_id", "match_id"} : set[c] # old[c]

ReachesVote(session, old) ==
  BypassesRls(session) \/ votes_update_own(session, old)

ExistingMatchIds == {m.id : m \in matches}

ExistingTeamIds == {t.id : t \in teams}

DanglingReference(f) ==
  \/ "match_id" \in DOMAIN f /\ f["match_id"] \notin ExistingMatchIds
  \/ "vote_team_id" \in DOMAIN f
       /\ f["vote_team_id"] \notin ExistingTeamIds \cup {NULL}

(* C16: a castOrUpdate whose row names a match or a team that no row of    *)
(* matches or teams has fails and leaves votes unchanged; so does an       *)
(* UPDATE that sets such a match or team on a row it reaches (an UPDATE    *)
(* that matches no row changes nothing either).                            *)
C16_DanglingReferenceRejected ==
  [][/\ (last'.op = "castOrUpdate" /\ DanglingReference(last'.arg))
          => votes' = votes /\ last'.result = "error"
     /\ (last'.op = "updateVote" /\ DanglingReference(last'.arg))
          => /\ votes' = votes
             /\ \A old \in votes :
                  (old.id = last'.target /\ ReachesVote(last'.session, old))
                    => last'.result = "error"]_vars

C16_Witness ==
  /\ last.op = "castOrUpdate"
  /\ last.session = AuthSession(last.arg.user_id)
  /\ last.arg.match_id \notin ExistingMatchIds
  /\ last.arg.vote_team_id \in ExistingTeamIds
  /\ last.stmt = "foreign_key_violation"
  /\ votes # {}

(***************************************************************************)
(* The statistics view on its own: a votes table as the upserts of the     *)
(* voters leave it (each voter has voted for a team of match m1, holds a   *)
(* vote without a team, or has not voted; the first voter may also have    *)
(* voted on m2), and reads of vote_stats_public by any session.            *)
(***************************************************************************)
MaxVoters == 5

Voters == {"u" \o ToString(i) : i \in 1..MaxVoters}

Abstains == "abstains"

VoteChoices == Nullable(TeamIds) \cup {Abstains}

VotesOnMatch(m, choice) ==
  {VoteRow(<<v, m, 0>>, v, m, choice[v]) :
     v \in {x \in DOMAIN choice : choice[x] # Abstains}}

VoteTables ==
  {VotesOnMatch("m1", f) \cup VotesOnMatch("m2", g) :
     f \in [Voters -> VoteChoices], g \in [{"u1"} -> VoteChoices]}

InitStats ==
  /\ authUsers = Voters
  /\ users = {ProvisionedUser(p) : p \in Voters}
  /\ last = Idle
  /\ teams = {TeamRow(t) : t \in TeamIds}
  /\ events = IngestedEvents
  /\ matches = IngestedMatches
  /\ votes \in VoteTables
  /\ points = {}
  /\ breakdown_pts = {}
  /\ now = 0
  /\ sub_events = {}
  /\ stars = {}
  /\ InitWeb

NextStats ==
  \/ last = Idle /\ \E s \in Sessions : \E m \in {r.id : r \in matches} :
                      Stats(s, m)
  \/ Return

SpecStats == InitStats /\ [][NextStats]_vars

(***************************************************************************)
(* Properties of the statistics (SpecStats)                                *)
(***************************************************************************)
RECURSIVE SumOfPercentages(_)
SumOfPercentages(S) ==
  IF S = {} THEN 0
  ELSE LET s == CHOOSE x \in S : TRUE
       IN  s.vote_percentage + SumOfPercentages(S \ {s})

Abs(x) == IF x < 0 THEN -x ELSE x

VotesFor(m, t) == {v \in votes : v.match_id = m /\ v.vote_team_id = t}

VotesCounted(m) == {v \in votes : v.match_id = m /\ v.vote_team_id # NULL}

(* p hundredths is 100 * n / d rounded to two decimals (half up)           *)
IsRoundedPercentage(p, n, d) ==
  2 * p * d <= 20000 * n + d /\ 20000 * n + d < 2 * p * d + 2 * d

(* C17: for a match with at least one vote that names a team, the          *)
(* percentages of its statistics differ from 100.00 in sum by at most half *)
(* a hundredth per reported team, and the statistics have an entry for a   *)
(* team only if a vote of the match names it: never an entry with count 0. *)
C17_PercentagesSumTo100 ==
  last.op = "stats"
    => /\ VotesCounted(last.target) # {}
            => /\ last.rows # {}
               /\ 2 * Abs(SumOfPercentages(last.rows) - 10000)
                    <= Cardinality(last.rows)
       /\ \A s \in last.rows :
            /\ s.vote_count > 0
            /\ VotesFor(last.target, s.vote_team_id) # {}
       /\ \A t \in TeamIds :
            VotesFor(last.target, t) = {}
              => ~\E s \in last.rows : s.vote_team_id = t

C17_Witness ==
  /\ last.op = "stats"
  /\ Cardinality(last.rows) = 3
  /\ SumOfPercentages(last.rows) = 9999
  /\ \E t \in TeamIds : VotesFor("m2", t) # {} /\ VotesFor(last.target, t) # {}

(* C18, as the spec states it: for every team with a vote of the match the *)
(* statistics report the number of votes rows of the match that name the   *)
(* team, and 100 times that number over the number of ALL votes rows of    *)
(* the match, rounded to two decimals.                                     *)
C18_PercentageOfAllVotes ==
  last.op = "stats"
    => \A t \in TeamIds :
         VotesFor(last.target, t) # {}
           => \E s \in last.rows :
                /\ s.vote_team_id = t
                /\ s.vote_count = Cardinality(VotesFor(last.target, t))
                /\ IsRoundedPercentage(
                     s.vote_percentage, s.vote_count,
                     Cardinality({v \in votes : v.match_id = last.target}))

(* C18, amended: the percentage is taken over the votes rows of the match  *)
(* that name a team (WHERE vote_team_id IS NOT NULL); each team with a     *)
(* vote has exactly one entry, with the number of rows that name it.       *)
C18_PercentageOfCountedVotes ==
  last.op = "stats"
    => \A t \in TeamIds :
         VotesFor(last.target, t) # {}
           => /\ Cardinality({s \in last.rows : s.vote_team_id = t}) = 1
              /\ \A s \in last.rows :
                   s.vote_team_id = t
                     => /\ s.match_id = last.target
                        /\ s.vote_count = Cardinality(VotesFor(last.target, t))
                        /\ IsRoundedPercentage(
                             s.vote_percentage, s.vote_count,
                             Cardinality(VotesCounted(last.target)))

C18_Witness ==
  /\ last.op = "stats"
  /\ last.target = "m1"
  /\ VotesFor("m1", NULL) # {}
  /\ VotesFor("m2", "t1") # {}
  /\ \E s \in last.rows : s.vote_count = 2 /\ s.vote_percentage = 6667

(***************************************************************************)
(* public.points and public.breakdown_pts: rows, constraints and the       *)
(* BEFORE UPDATE triggers.  A new row is named after its key, as for       *)
(* votes.                                                                  *)
(***************************************************************************)
PointsRow(id, uid, eid, n) ==
  [id |-> id, user_id |-> uid, event_id |-> eid, nr_points |-> n]

BreakdownRow(id, parent, region, n) ==
  [id |-> id, parent_points_id |-> parent, region |-> region, nr_points |-> n]

SamePair(tbl, uid, eid) == {r \in tbl : r.user_id = uid /\ r.event_id = eid}

SameRegion(tbl, parent, region) ==
  {r \in tbl : r.parent_points_id = parent /\ r.region = region}

points_user_event_unique_dropped(tbl, uid, eid) == FALSE

points_user_event_unique(tbl, uid, eid) == SamePair(tbl, uid, eid) # {}

points_user_id_fkey(usersTbl, uid) == \E u \in usersTbl : u.user_id = uid

points_event_id_fkey(eventsTbl, eid) == \E e \in eventsTbl : e.id = eid

breakdown_pts_unique_parent_region_dropped(tbl, parent, region) == FALSE

breakdown_pts_unique_parent_region(tbl, parent, region) ==
  SameRegion(tbl, parent, region) # {}

breakdown_pts_parent_points_id_fkey(pointsTbl, parent) ==
  \E r \in pointsTbl : r.id = parent

prevent_points_updates(old, new) ==
  IF old.user_id # new.user_id THEN "user_id cannot be changed"
  ELSE IF old.event_id # new.event_id THEN "event_id cannot be changed"
  ELSE "none"

prevent_breakdown_updates_no_region(old, new) ==
  IF old.parent_points_id # new.parent_points_id
    THEN "parent_points_id cannot be changed"
  ELSE "none"

prevent_breakdown_updates(old, new) ==
  IF old.parent_points_id # new.parent_points_id
    THEN "parent_points_id cannot be changed"
  ELSE IF old.region # new.region THEN "region cannot be changed"
  ELSE "none"

(***************************************************************************)
(* INSERT INTO points (user_id, event_id): nr_points DEFAULT 0             *)
(***************************************************************************)
NewPointsRow(tbl, uid, eid) ==
  PointsRow(<<uid, eid, Cardinality(SamePair(tbl, uid, eid))>>, uid, eid, 0)

InsertPoints(tbl, usersTbl, eventsTbl, uid, eid) ==
  IF points_user_event_unique(tbl, uid, eid)
    THEN [stmt |-> "unique_violation", tbl |-> tbl]
  ELSE IF ~points_user_id_fkey(usersTbl, uid)
          \/ ~points_event_id_fkey(eventsTbl, eid)
    THEN [stmt |-> "foreign_key_violation", tbl |-> tbl]
  ELSE [stmt |-> "inserted", tbl |-> tbl \cup {NewPointsRow(tbl, uid, eid)}]

(***************************************************************************)
(* INSERT INTO breakdown_pts (parent_points_id, region, nr_points)         *)
(***************************************************************************)
NewBreakdownRow(tbl, parent, region, n) ==
  BreakdownRow(<<parent, region, Cardinality(SameRegion(tbl, parent, region))>>,
               parent, region, n)

InsertBreakdown(tbl, pointsTbl, parent, region, n) ==
  IF breakdown_pts_unique_parent_region(tbl, parent, region)
    THEN [stmt |-> "unique_violation", tbl |-> tbl]
  ELSE IF ~breakdown_pts_parent_points_id_fkey(pointsTbl, parent)
    THEN [stmt |-> "foreign_key_violation", tbl |-> tbl]
  ELSE [stmt |-> "inserted",
        tbl |-> tbl \cup {NewBreakdownRow(tbl, parent, region, n)}]

(***************************************************************************)
(* UPDATE of one row of points or of breakdown_pts to new: the BEFORE      *)
(* UPDATE trigger, then the write.                                         *)
(***************************************************************************)
UpdatePointsRow(tbl, old, new) ==
  IF prevent_points_updates(old, new) # "none"
    THEN [stmt |-> "exception", tbl |-> tbl]
    ELSE [stmt |-> "updated", tbl |-> (tbl \ {old}) \cup {new}]

UpdateBreakdownRow(tbl, old, new) ==
  IF prevent_breakdown_updates(old, new) # "none"
    THEN [stmt |-> "exception", tbl |-> tbl]
    ELSE [stmt |-> "updated", tbl |-> (tbl \ {old}) \cup {new}]

(***************************************************************************)
(* upsertBreakdown(principal, contest, region, points), one transaction of *)
(* the backend: INSERT INTO points ... ON CONFLICT (user_id, event_id) DO  *)
(* NOTHING, then INSERT INTO breakdown_pts ... ON CONFLICT                 *)
(* (parent_points_id, region) DO UPDATE SET nr_points under that row's id. *)
(***************************************************************************)
UpsertBreakdownPts(tbl, parent, region, n) ==
  IF breakdown_pts_unique_parent_region(tbl, parent, region)
    THEN LET old == CHOOSE r \in SameRegion(tbl, parent, region) : TRUE
         IN  UpdateBreakdownRow(tbl, old, [old EXCEPT !.nr_points = n])
    ELSE [stmt |-> "inserted",
          tbl |-> tbl \cup {NewBreakdownRow(tbl, parent, region, n)}]

upsertBreakdown(pointsTbl, breakdownTbl, usersTbl, eventsTbl, uid, eid, region, n) ==
  LET parentIns == IF points_user_event_unique(pointsTbl, uid, eid)
                     THEN [stmt |-> "do_nothing", tbl |-> pointsTbl]
                     ELSE InsertPoints(pointsTbl, usersTbl, eventsTbl, uid, eid)
  IN  IF parentIns.stmt \notin {"do_nothing", "inserted"}
        THEN [stmt |-> parentIns.stmt, points |-> pointsTbl,
              breakdown_pts |-> breakdownTbl]
        ELSE LET parent == IF parentIns.stmt = "inserted"
                             THEN NewPointsRow(pointsTbl, uid, eid)
                             ELSE CHOOSE r \in SamePair(pointsTbl, uid, eid) :
                                    TRUE
                 up == UpsertBreakdownPts(breakdownTbl, parent.id, region, n)
             IN  [stmt |-> up.stmt, points |-> parentIns.tbl,
                  breakdown_pts |-> up.tbl]

(***************************************************************************)
(* recomputeTotal(principal, contest): UPDATE points SET nr_points =        *)
(* (SELECT COALESCE(SUM(nr_points), 0) FROM breakdown_pts WHERE             *)
(* parent_points_id = points.id) WHERE user_id = ... AND event_id = ...,    *)
(* the read of the breakdown rows and the write in one statement.           *)
(***************************************************************************)
RECURSIVE SumNrPoints(_)
SumNrPoints(rows) ==
  IF rows = {} THEN 0
  ELSE LET r == CHOOSE x \in rows : TRUE
       IN  r.nr_points + SumNrPoints(rows \ {r})

BreakdownOf(breakdownTbl, parent) ==
  {b \in breakdownTbl : b.parent_points_id = parent}

recomputeTotal(pointsTbl, breakdownTbl, uid, eid) ==
  LET matched == SamePair(pointsTbl, uid, eid)
      Recomputed(old) ==
        [old EXCEPT !.nr_points = SumNrPoints(BreakdownOf(breakdownTbl, old.id))]
  IN  IF matched = {}
        THEN [stmt |-> "no_rows", tbl |-> pointsTbl]
      ELSE IF \E old \in matched :
                prevent_points_updates(old, Recomputed(old)) # "none"
        THEN [stmt |-> "exception", tbl |-> pointsTbl]
      ELSE [stmt |-> "updated",
            tbl |-> (pointsTbl \ matched) \cup {Recomputed(old) : old \in matched}]

(***************************************************************************)
(* The leaderboard aggregator on its own: every principal is provisioned,  *)
(* the contest e1 exists (e2 does not), and the backend (service_role)     *)
(* writes points and breakdown_pts.                                        *)
(***************************************************************************)
RegionPoints == {<<"americas", 40>>, <<"emea", 25>>, <<"pacific", 10>>}

PointsIds == {<<u, e, 0>> : u \in Principals, e \in EventIds}

InitPoints ==
  /\ authUsers = Principals
  /\ users = {ProvisionedUser(p) : p \in Principals}
  /\ last = Idle
  /\ teams = {}
  /\ events = IngestedEvents
  /\ matches = {}
  /\ votes = {}
  /\ points = {}
  /\ breakdown_pts = {}
  /\ now = 0
  /\ sub_events = {}
  /\ stars = {}
  /\ InitWeb

PointsInsert(uid, eid) ==
  /\ last = Idle
  /\ LET r == InsertPoints(points, users, events, uid, eid)
     IN  /\ points' = r.tbl
         /\ last' = Outcome("insertPoints", ServiceSession, <<uid, eid>>, NoArg,
                            r.stmt,
                            IF r.stmt = "inserted" THEN "ok" ELSE "error",
                            "none", {}, << >>)
  /\ UNCHANGED <<authUsers, users, teams, events, matches, votes,
                 breakdown_pts, now>>
  /\ UNCHANGED <<awards, web>>

BreakdownInsert(parent, region, n) ==
  /\ last = Idle
  /\ LET r == InsertBreakdown(breakdown_pts, points, parent, region, n)
     IN  /\ breakdown_pts' = r.tbl
         /\ last' = Outcome("insertBreakdown", ServiceSession, parent,
                            [region |-> region, nr_points |-> n], r.stmt,
                            IF r.stmt = "inserted" THEN "ok" ELSE "error",
                            "none", {}, << >>)
  /\ UNCHANGED <<authUsers, users, teams, events, matches, votes, points, now>>
  /\ UNCHANGED <<awards, web>>

UpsertBreakdown(uid, eid, region, n) ==
  /\ last = Idle
  /\ LET r == upsertBreakdown(points, breakdown_pts, users, events,
                              uid, eid, region, n)
     IN  /\ points' = r.points
         /\ breakdown_pts' = r.breakdown_pts
         /\ last' = Outcome("upsertBreakdown", ServiceSession, <<uid, eid>>,
                            [region |-> region, nr_points |-> n], r.stmt,
                            IF r.stmt \in {"inserted", "updated"}
                              THEN "ok" ELSE "error",
                            "none", {}, << >>)
  /\ UNCHANGED <<authUsers, users, teams, events, matches, votes, now>>
  /\ UNCHANGED <<awards, web>>

RecomputeTotal(uid, eid) ==
  /\ last = Idle
  /\ LET r == recomputeTotal(points, breakdown_pts, uid, eid)
     IN  /\ points' = r.tbl
         /\ last' = Outcome("recomputeTotal", ServiceSession, <<uid, eid>>,
                            NoArg, r.stmt,
                            IF r.stmt \in {"updated", "no_rows"}
                              THEN "ok" ELSE "error",
                            "none", {}, << >>)
  /\ UNCHANGED <<authUsers, users, teams, events, matches, votes,
                 breakdown_pts, now>>
  /\ UNCHANGED <<awards, web>>

NextPoints ==
  \/ last = Idle /\ \E u \in Principals : \E e \in EventIds : PointsInsert(u, e)
  \/ last = Idle /\ \E parent \in PointsIds : \E rp \in RegionPoints :
                      BreakdownInsert(parent, rp[1], rp[2])
  \/ last = Idle /\ \E u \in Principals : \E e \in EventIds :
                      \E rp \in RegionPoints : UpsertBreakdown(u, e, rp[1], rp[2])
  \/ last = Idle /\ \E u \in Principals : \E e \in EventIds :
                      RecomputeTotal(u, e)
  \/ Return

SpecPoints == InitPoints /\ [][NextPoints]_vars

(***************************************************************************)
(* Properties of the leaderboard aggregator (SpecPoints)                   *)
(***************************************************************************)
RegionValue(breakdownTbl, parents, region) ==
  IF \E b \in breakdownTbl : b.parent_points_id \in parents /\ b.region = region
    THEN (CHOOSE b \in breakdownTbl :
            b.parent_points_id \in parents /\ b.region = region).nr_points
    ELSE 0

(* the sum of the point counts attached to the points rows named by        *)
(* parents, region by region                                               *)
AttachedTotal(breakdownTbl, parents) ==
  RegionValue(breakdownTbl, parents, "americas")
    + RegionValue(breakdownTbl, parents, "emea")
    + RegionValue(breakdownTbl, parents, "pacific")

(* C19: a recomputeTotal(p, contest) leaves the breakdown rows and the     *)
(* points rows of other pairs alone, and after it the points row of the    *)
(* pair, if there is one, holds the sum of the point counts of the         *)
(* breakdown rows attached to the pair: 65 for {americas: 40, emea: 25},   *)
(* 75 once {pacific: 10} has been added.                                   *)
C19_RecomputeTotalIsSum ==
  [][last'.op = "recomputeTotal"
       => LET uid == last'.target[1]
              eid == last'.target[2]
              pair == SamePair(points', uid, eid)
          IN  /\ breakdown_pts' = breakdown_pts
              /\ points' \ pair = points \ SamePair(points, uid, eid)
              /\ Cardinality(pair) = Cardinality(SamePair(points, uid, eid))
              /\ pair # {} => last'.stmt = "updated"
              /\ \A r \in pair :
                   r.nr_points
                     = AttachedTotal(breakdown_pts, {x.id : x \in pair})]_vars

C19_Witness ==
  /\ last.op = "recomputeTotal"
  /\ last.stmt = "updated"
  /\ \E r \in SamePair(points, last.target[1], last.target[2]) :
       /\ r.nr_points = 75
       /\ {<<b.region, b.nr_points>> : b \in BreakdownOf(breakdown_pts, r.id)}
            = {<<"americas", 40>>, <<"emea", 25>>, <<"pacific", 10>>}
  /\ \E r \in points : r.nr_points = 65

UniquePoints ==
  \A r, q \in points :
    (r.user_id = q.user_id /\ r.event_id = q.event_id) => r = q

UniqueBreakdown ==
  \A b, c \in breakdown_pts :
    (b.parent_points_id = c.parent_points_id /\ b.region = c.region) => b = c

(* C20, as the spec states it: in every state points has at most one row   *)
(* per (user_id, event_id), breakdown_pts at most one row per              *)
(* (parent_points_id, region), and every points row holds the sum of the   *)
(* point counts of its breakdown rows.                                     *)
C20_TotalAlwaysSum ==
  /\ UniquePoints
  /\ UniqueBreakdown
  /\ \A r \in points : r.nr_points = AttachedTotal(breakdown_pts, {r.id})

(* C20, amended: the two uniqueness rules hold in every state; a points    *)
(* row holds the sum of its breakdown rows in the state a recomputeTotal   *)
(* of its pair leaves, not in every state (a breakdown write does not      *)
(* touch the total).                                                       *)
C20_UniqueRowsTotalOnRecompute ==
  /\ UniquePoints
  /\ UniqueBreakdown
  /\ (last.op = "recomputeTotal" /\ last.stmt = "updated")
       => \A r \in SamePair(points, last.target[1], last.target[2]) :
            r.nr_points = AttachedTotal(breakdown_pts, {r.id})

C20_Witness ==
  /\ last.op = "insertBreakdown"
  /\ last.stmt = "unique_violation"
  /\ Cardinality(points) > 1
  /\ \E r \in points :
       /\ r.id = last.target
       /\ Cardinality(BreakdownOf(breakdown_pts, r.id)) > 1
       /\ r.nr_points # AttachedTotal(breakdown_pts, {r.id})

(***************************************************************************)
(* Table privileges.  The migrations grant and revoke nothing on their     *)
(* tables, so every table carries the privileges of the project's default: *)
(* each API role may SELECT, INSERT, UPDATE and DELETE (001 relies on it:  *)
(* "you can REVOKE SELECT on public.users from authenticated").  Row-level *)
(* security is enabled on users and votes only; points, breakdown_pts,     *)
(* stars, sub_events and matches have none, so on them a privileged        *)
(* session reaches every row.                                              *)
(***************************************************************************)
TableGrantees == {"anon", "authenticated", "service_role"}

HasTablePrivilege(session) == session.role \in TableGrantees

(***************************************************************************)
(* public.sub_events and public.stars.  A region and a category are citext *)
(* values (compared without regard to case).                               *)
(***************************************************************************)
SubEventRow(id, parent, region) ==
  [id |-> id, parent_event_id |-> parent, region |-> region]

StarRow(id, uid, eid, category) ==
  [id |-> id, user_id |-> uid, event_id |-> eid, category |-> category]

SameStar(tbl, uid, eid, category) ==
  {r \in tbl : r.user_id = uid /\ r.event_id = eid /\ r.category = category}

stars_pkey(tbl, id) == \E r \in tbl : r.id = id

stars_user_id_fkey(usersTbl, uid) == \E u \in usersTbl : u.user_id = uid

stars_event_id_fkey(eventsTbl, eid) == \E e \in eventsTbl : e.id = eid

prevent_sub_events_updates(old, new) ==
  IF old.parent_event_id # new.parent_event_id
    THEN "parent_event_id cannot be changed"
  ELSE "none"

prevent_matches_updates(old, new) ==
  IF old.event_id # new.event_id THEN "event_id cannot be changed"
  ELSE "none"

prevent_star_updates(old, new) ==
  IF old.user_id # new.user_id THEN "user_id cannot be changed"
  ELSE IF old.event_id # new.event_id THEN "event_id cannot be changed"
  ELSE IF old.category # new.category THEN "category cannot be changed"
  ELSE "none"

(***************************************************************************)
(* Statements of a session on the tables without row-level security.  An   *)
(* UPDATE ... WHERE id = target runs the table's BEFORE UPDATE trigger on  *)
(* the row it finds and then writes it.                                    *)
(***************************************************************************)
SetRow(old, set) ==
  [c \in DOMAIN old |-> IF c \in DOMAIN set THEN set[c] ELSE old[c]]

PermissionDenied(tbl) == [stmt |-> "permission_denied", tbl |-> tbl]

DeleteById(session, tbl, target) ==
  IF ~HasTablePrivilege(session) THEN PermissionDenied(tbl)
  ELSE IF ~\E r \in tbl : r.id = target THEN [stmt |-> "no_rows", tbl |-> tbl]
  ELSE [stmt |-> "deleted", tbl |-> {r \in tbl : r.id # target}]

UpdateSubEventsRow(tbl, old, new) ==
  IF prevent_sub_events_updates(old, new) # "none"
    THEN [stmt |-> "exception", tbl |-> tbl]
    ELSE [stmt |-> "updated", tbl |-> (tbl \ {old}) \cup {new}]

UpdateMatchesRow(tbl, old, new) ==
  IF prevent_matches_updates(old, new) # "none"
    THEN [stmt |-> "exception", tbl |-> tbl]
    ELSE [stmt |-> "updated", tbl |-> (tbl \ {old}) \cup {new}]

UpdateStarsRow(tbl, old, new) ==
  IF prevent_star_updates(old, new) # "none"
    THEN [stmt |-> "exception", tbl |-> tbl]
  ELSE IF new.id # old.id /\ stars_pkey(tbl, new.id)
    THEN [stmt |-> "unique_violation", tbl |-> tbl]
  ELSE [stmt |-> "updated", tbl |-> (tbl \ {old}) \cup {new}]

UpdateRow(table, tbl, old, new) ==
  CASE table = "points" -> UpdatePointsRow(tbl, old, new)
    [] table = "breakdown_pts" -> UpdateBreakdownRow(tbl, old, new)
    [] table = "stars" -> UpdateStarsRow(tbl, old, new)
    [] table = "sub_events" -> UpdateSubEventsRow(tbl, old, new)
    [] table = "matches" -> UpdateMatchesRow(tbl, old, new)

UpdateById(session, table, tbl, target, set) ==
  IF ~HasTablePrivilege(session) THEN PermissionDenied(tbl)
  ELSE IF ~\E r \in tbl : r.id = target THEN [stmt |-> "no_rows", tbl |-> tbl]
  ELSE LET old == CHOOSE r \in tbl : r.id = target
       IN  UpdateRow(table, tbl, old, SetRow(old, set))

(***************************************************************************)
(* INSERT INTO stars (user_id, event_id, category): id DEFAULT             *)
(* gen_random_uuid(), an id no row of the table holds.  stars has no       *)
(* unique constraint other than its primary key.                           *)
(***************************************************************************)
MaxStars == 1

StarId(i) == "s" \o ToString(i)

StarIds == {StarId(i) : i \in 1..(MaxStars + 1)}

StarCategories == {"kickoff_winner"}

NewStarId(tbl) ==
  StarId(CHOOSE i \in 1..(MaxStars + 1) :
           /\ ~stars_pkey(tbl, StarId(i))
           /\ \A j \in 1..(i - 1) : stars_pkey(tbl, StarId(j)))

InsertStars(tbl, usersTbl, eventsTbl, uid, eid, category) ==
  IF ~stars_user_id_fkey(usersTbl, uid) \/ ~stars_event_id_fkey(eventsTbl, eid)
    THEN [stmt |-> "foreign_key_violation", tbl |-> tbl]
    ELSE [stmt |-> "inserted",
          tbl |-> tbl \cup {StarRow(NewStarId(tbl), uid, eid, category)}]

(***************************************************************************)
(* The leaderboard and reference tables as the API exposes them: every     *)
(* principal is provisioned, the contest e1 with its sub-contest se1 and   *)
(* match m1 is ingested, and any session (anon, authenticated or           *)
(* service_role) sends statements on points, breakdown_pts, stars,         *)
(* sub_events and matches through supabase.from(table).                    *)
(***************************************************************************)
IngestedSubEvents == {SubEventRow("se1", "e1", "emea")}

SubEventIds == {"se1"}

PointsSetClauses ==
  {[nr_points |-> 40]}
  \cup {[user_id |-> u] : u \in Principals}
  \cup {[event_id |-> e] : e \in EventIds}

BreakdownSetClauses ==
  {[region |-> r] : r \in {"emea", "pacific"}}
  \cup {[parent_points_id |-> id] : id \in PointsIds}

StarSetClauses ==
  {[id |-> id] : id \in StarIds}
  \cup {[user_id |-> u] : u \in Principals}
  \cup {[event_id |-> e] : e \in EventIds}
  \cup {[category |-> c] : c \in StarCategories \cup {"masters_winner"}}

SubEventSetClauses ==
  {[parent_event_id |-> e] : e \in EventIds} \cup {[region |-> "americas"]}

MatchSetClauses == {[event_id |-> e] : e \in EventIds}

BreakdownIds == {<<parent, "emea", 0>> : parent \in PointsIds}

InitBackend ==
  /\ authUsers = Principals
  /\ users = {ProvisionedUser(p) : p \in Principals}
  /\ last = Idle
  /\ teams = IngestedTeams
  /\ events = IngestedEvents
  /\ matches = {MatchRow("m1", "e1", "t1", "t2", {1})}
  /\ votes = {}
  /\ points = {}
  /\ breakdown_pts = {}
  /\ now = 0
  /\ sub_events = IngestedSubEvents
  /\ stars = {}
  /\ InitWeb

Response(op, session, target, arg, stmt) ==
  Outcome(op, session, target, arg, stmt,
          IF stmt \in {"inserted", "updated", "deleted", "no_rows"}
            THEN "ok" ELSE "error",
          "none", {}, << >>)

InsertIntoPoints(session, uid, eid) ==
  /\ last = Idle
  /\ LET r == IF HasTablePrivilege(session)
                THEN InsertPoints(points, users, events, uid, eid)
                ELSE PermissionDenied(points)
     IN  /\ points' = r.tbl
         /\ last' = Response("points.insert", session, <<uid, eid>>, NoArg,
                             r.stmt)
  /\ UNCHANGED <<authUsers, users, teams, events, matches, votes,
                 breakdown_pts, now, awards, web>>

UpdatePoints(session, target, set) ==
  /\ last = Idle
  /\ LET r == UpdateById(session, "points", points, target, set)
     IN  /\ points' = r.tbl
         /\ last' = Response("points.update", session, target, set, r.stmt)
  /\ UNCHANGED <<authUsers, users, teams, events, matches, votes,
                 breakdown_pts, now, awards, web>>

DeleteFromPoints(session, target) ==
  /\ last = Idle
  /\ LET r == DeleteById(session, points, target)
     IN  /\ points' = r.tbl
         /\ breakdown_pts' = OnDeleteCascade(breakdown_pts, "parent_points_id",
                                             r.tbl, "id")
         /\ last' = Response("points.delete", session, target, NoArg, r.stmt)
  /\ UNCHANGED <<authUsers, users, teams, events, matches, votes, now,
                 awards, web>>

InsertIntoBreakdownPts(session, parent, region, n) ==
  /\ last = Idle
  /\ LET r == IF HasTablePrivilege(session)
                THEN InsertBreakdown(breakdown_pts, points, parent, region, n)
                ELSE PermissionDenied(breakdown_pts)
     IN  /\ breakdown_pts' = r.tbl
         /\ last' = Response("breakdown_pts.insert", session, parent,
                             [region |-> region, nr_points |-> n], r.stmt)
  /\ UNCHANGED <<authUsers, users, teams, events, matches, votes, points, now,
                 awards, web>>

UpdateBreakdownPts(session, target, set) ==
  /\ last = Idle
  /\ LET r == UpdateById(session, "breakdown_pts", breakdown_pts, target,
                         set)
     IN  /\ breakdown_pts' = r.tbl
         /\ last' = Response("breakdown_pts.update", session, target, set,
                             r.stmt)
  /\ UNCHANGED <<authUsers, users, teams, events, matches, votes, points, now,
                 awards, web>>

DeleteFromBreakdownPts(session, target) ==
  /\ last = Idle
  /\ LET r == DeleteById(session, breakdown_pts, target)
     IN  /\ breakdown_pts' = r.tbl
         /\ last' = Response("breakdown_pts.delete", session, target, NoArg,
                             r.stmt)
  /\ UNCHANGED <<authUsers, users, teams, events, matches, votes, points, now,
                 awards, web>>

InsertIntoStars(session, uid, eid, category) ==
  /\ last = Idle
  /\ Cardinality(stars) < MaxStars
  /\ LET r == IF HasTablePrivilege(session)
                THEN InsertStars(stars, users, events, uid, eid, category)
                ELSE PermissionDenied(stars)
     IN  /\ stars' = r.tbl
         /\ last' = Response("stars.insert", session, <<uid, eid>>,
                             [category |-> category], r.stmt)
  /\ UNCHANGED <<authUsers, users, ledger, sub_events, web>>

UpdateStars(session, target, set) ==
  /\ last = Idle
  /\ LET r == UpdateById(session, "stars", stars, target, set)
     IN  /\ stars' = r.tbl
         /\ last' = Response("stars.update", session, target, set, r.stmt)
  /\ UNCHANGED <<authUsers, users, ledger, sub_events, web>>

DeleteFromStars(session, target) ==
  /\ last = Idle
  /\ LET r == DeleteById(session, stars, target)
     IN  /\ stars' = r.tbl
         /\ last' = Response("stars.delete", session, target, NoArg, r.stmt)
  /\ UNCHANGED <<authUsers, users, ledger, sub_events, web>>

UpdateSubEvents(session, target, set) ==
  /\ last = Idle
  /\ LET r == UpdateById(session, "sub_events", sub_events, target, set)
     IN  /\ sub_events' = r.tbl
         /\ last' = Response("sub_events.update", session, target, set, r.stmt)
  /\ UNCHANGED <<authUsers, users, ledger, stars, web>>

UpdateMatches(session, target, set) ==
  /\ last = Idle
  /\ LET r == UpdateById(session, "matches", matches, target, set)
     IN  /\ matches' = r.tbl
         /\ last' = Response("matches.update", session, target, set, r.stmt)
  /\ UNCHANGED <<authUsers, users, teams, events, votes, points, breakdown_pts,
                 now, awards, web>>

NextBackend ==
  \/ last = Idle /\ \E s \in Sessions : \E u \in Principals : \E e \in EventIds :
                      InsertIntoPoints(s, u, e)
  \/ last = Idle /\ \E s \in Sessions : \E t \in PointsIds :
                      \E set \in PointsSetClauses : UpdatePoints(s, t, set)
  \/ last = Idle /\ \E s \in Sessions : \E t \in PointsIds :
                      DeleteFromPoints(s, t)
  \/ last = Idle /\ \E s \in Sessions : \E parent \in PointsIds :
                      InsertIntoBreakdownPts(s, parent, "emea", 25)
  \/ last = Idle /\ \E s \in Sessions : \E t \in BreakdownIds :
                      \E set \in BreakdownSetClauses :
                        UpdateBreakdownPts(s, t, set)
  \/ last = Idle /\ \E s \in Sessions : \E t \in BreakdownIds :
                      DeleteFromBreakdownPts(s, t)
  \/ last = Idle /\ \E s \in Sessions : \E u \in Principals :
                      \E e \in EventIds : \E c \in StarCategories :
                        InsertIntoStars(s, u, e, c)
  \/ last = Idle /\ \E s \in Sessions : \E t \in StarIds :
                      \E set \in StarSetClauses : UpdateStars(s, t, set)
  \/ last = Idle /\ \E s \in Sessions : \E t \in StarIds : DeleteFromStars(s, t)
  \/ last = Idle /\ \E s \in Sessions : \E t \in SubEventIds :
                      \E set \in SubEventSetClauses : UpdateSubEvents(s, t, set)
  \/ last = Idle /\ \E s \in Sessions : \E t \in MatchIds :
                      \E set \in MatchSetClauses : UpdateMatches(s, t, set)
  \/ Return

SpecBackend == InitBackend /\ [][NextBackend]_vars

(***************************************************************************)
(* Properties of the leaderboard and reference tables (SpecBackend)        *)
(***************************************************************************)
LeaderboardWrites ==
  {t \o "." \o v : t \in {"points", "breakdown_pts", "stars"},
                   v \in {"insert", "update", "delete"}}

(***************************************************************************)
(* C21: only the privileged backend role can insert, update or delete      *)
(* Points, Breakdown and Star rows: no such statement of an anonymous or   *)
(* authenticated session writes a row.                                     *)
(***************************************************************************)
C21_OnlyBackendWrites ==
  (last.op \in LeaderboardWrites /\ last.session.role \in OrdinaryRoles)
    => ~TakesEffect(last)

(***************************************************************************)
(* C22: a Star row is immutable once created: every UPDATE of an existing  *)
(* stars row whose SET clause would change one of its columns is rejected  *)
(* and leaves the table as it was.                                         *)
(***************************************************************************)
C22_StarImmutable ==
  [][(/\ last'.op = "stars.update"
      /\ \E old \in stars : /\ old.id = last'.target
                            /\ SetRow(old, last'.arg) # old)
       => (~TakesEffect(last') /\ stars' = stars)]_vars

(***************************************************************************)
(* C23: an UPDATE that changes the parent contest of a sub_events row, the *)
(* contest of a matches row, the principal or contest of a points row, or  *)
(* the parent points row or region of a breakdown_pts row is rejected and  *)
(* leaves the tables as they were, whichever role sends it.                *)
(***************************************************************************)
ParentReferences(op) ==
  CASE op = "sub_events.update" -> {"parent_event_id"}
    [] op = "matches.update" -> {"event_id"}
    [] op = "points.update" -> {"user_id", "event_id"}
    [] op = "breakdown_pts.update" -> {"parent_points_id", "region"}
    [] OTHER -> {}

UpdatedTable(op) ==
  CASE op = "sub_events.update" -> sub_events
    [] op = "matches.update" -> matches
    [] op = "points.update" -> points
    [] op = "breakdown_pts.update" -> breakdown_pts
    [] OTHER -> {}

ChangesParentReference(l, old) ==
  /\ old.id = l.target
  /\ \E c \in ParentReferences(l.op) \cap DOMAIN l.arg : l.arg[c] # old[c]

C23_ParentReferenceImmutable ==
  [][(\E old \in UpdatedTable(last'.op) : ChangesParentReference(last', old))
       => /\ last'.stmt = "exception"
          /\ last'.result = "error"
          /\ UNCHANGED <<sub_events, matches, points, breakdown_pts>>]_vars

C23_Witness ==
  /\ last.op = "breakdown_pts.update"
  /\ last.session = ServiceSession
  /\ last.arg = [region |-> "pacific"]
  /\ last.stmt = "exception"
  /\ \E b \in breakdown_pts : b.id = last.target /\ b.region = "emea"
  /\ \E p \in points : p.nr_points = 40

(***************************************************************************)
(* DELETE FROM teams WHERE id = target.  The team keys of matches          *)
(* (team1_id, team2_id, winner_id) and of votes (vote_team_id) are ON      *)
(* DELETE SET NULL: each is an UPDATE of the referencing row, which runs   *)
(* that table's BEFORE UPDATE trigger and is not subject to row-level      *)
(* security.                                                               *)
(***************************************************************************)
MatchAfterTeams(r, teamsTbl) ==
  SetNull(SetNull(SetNull(r, "team1_id", teamsTbl, "id"),
                  "team2_id", teamsTbl, "id"),
          "winner_id", teamsTbl, "id")

VoteAfterTeams(r, teamsTbl) == SetNull(r, "vote_team_id", teamsTbl, "id")

DeleteTeams(session, teamsTbl, matchesTbl, votesTbl, target) ==
  LET r == DeleteById(session, teamsTbl, target)
      unchanged == [stmt |-> r.stmt, teams |-> teamsTbl,
                    matches |-> matchesTbl, votes |-> votesTbl]
  IN  IF r.stmt # "deleted" THEN unchanged
      ELSE IF \/ \E m \in matchesTbl :
                   prevent_matches_updates(m, MatchAfterTeams(m, r.tbl)) # "none"
              \/ \E v \in votesTbl :
                   prevent_votes_updates(v, VoteAfterTeams(v, r.tbl)) # "none"
        THEN [unchanged EXCEPT !.stmt = "exception"]
      ELSE [stmt |-> "deleted", teams |-> r.tbl,
            matches |-> {MatchAfterTeams(m, r.tbl) : m \in matchesTbl},
            votes |-> {VoteAfterTeams(v, r.tbl) : v \in votesTbl}]

(***************************************************************************)
(* Deletions over a populated database: every principal is provisioned and *)
(* holds a points row with one breakdown and a star for the contest e1;    *)
(* the match m1 of the teams t1 and t2 has any result and each principal   *)
(* has voted for either team or not at all.  Principals are deleted        *)
(* upstream and teams are deleted through the API.                         *)
(***************************************************************************)
PredictedTeams == [Principals -> {Abstains, "t1", "t2"}]

InitCascade ==
  /\ authUsers = Principals
  /\ users = {ProvisionedUser(p) : p \in Principals}
  /\ last = Idle
  /\ teams = IngestedTeams
  /\ events = IngestedEvents
  /\ \E w \in Nullable({"t1", "t2"}) :
       matches = {[MatchRow("m1", "e1", "t1", "t2", {1}) EXCEPT !.winner_id = w]}
  /\ \E f \in PredictedTeams : votes = VotesOnMatch("m1", f)
  /\ points = {PointsRow(<<p, "e1", 0>>, p, "e1", 25) : p \in Principals}
  /\ breakdown_pts = {BreakdownRow(<<<<p, "e1", 0>>, "emea", 0>>,
                                   <<p, "e1", 0>>, "emea", 25) :
                        p \in Principals}
  /\ now = 0
  /\ sub_events = IngestedSubEvents
  /\ stars = {StarRow("s_" \o p, p, "e1", "kickoff_winner") : p \in Principals}
  /\ InitWeb

DeleteFromTeams(session, target) ==
  /\ last = Idle
  /\ LET r == DeleteTeams(session, teams, matches, votes, target)
     IN  /\ teams' = r.teams
         /\ matches' = r.matches
         /\ votes' = r.votes
         /\ last' = Response("teams.delete", session, target, NoArg, r.stmt)
  /\ UNCHANGED <<authUsers, users, events, points, breakdown_pts, now,
                 awards, web>>

NextCascade ==
  \/ last = Idle /\ \E p \in Principals : DeleteAuthUser(p)
  \/ last = Idle /\ \E s \in Sessions : \E t \in TeamIds : DeleteFromTeams(s, t)
  \/ Return

SpecCascade == InitCascade /\ [][NextCascade]_vars

(***************************************************************************)
(* C24: after a principal is deleted upstream, no users, votes, points,    *)
(* breakdown_pts or stars row of that principal remains (and the rows of   *)
(* the other principals do); after a team is deleted, every match and vote *)
(* that referenced it still exists, with that reference set to null and    *)
(* nothing else changed.                                                   *)
(***************************************************************************)
OwnedBy(tbl, p) == {r \in tbl : r.user_id = p}

BreakdownOwnedBy(breakdownTbl, pointsTbl, p) ==
  {b \in breakdownTbl :
     \E pt \in OwnedBy(pointsTbl, p) : pt.id = b.parent_points_id}

Dereferenced(r, columns, t) ==
  [c \in DOMAIN r |-> IF c \in columns /\ r[c] = t THEN NULL ELSE r[c]]

DeletedPrincipalLeavesNoRow(p) ==
  /\ p \notin authUsers'
  /\ users' = users \ OwnedBy(users, p)
  /\ votes' = votes \ OwnedBy(votes, p)
  /\ points' = points \ OwnedBy(points, p)
  /\ stars' = stars \ OwnedBy(stars, p)
  /\ breakdown_pts' = breakdown_pts \ BreakdownOwnedBy(breakdown_pts, points, p)
  /\ OwnedBy(users', p) \cup OwnedBy(votes', p) \cup OwnedBy(points', p)
       \cup OwnedBy(stars', p) = {}

DeletedTeamLeavesNull(t) ==
  /\ ~\E r \in teams' : r.id = t
  /\ matches' = {Dereferenced(m, {"team1_id", "team2_id", "winner_id"}, t) :
                   m \in matches}
  /\ votes' = {Dereferenced(v, {"vote_team_id"}, t) : v \in votes}
  /\ Cardinality(matches') = Cardinality(matches)
  /\ Cardinality(votes') = Cardinality(votes)

C24_DeleteCascades ==
  [][/\ (last'.op = "delete_auth_user")
          => DeletedPrincipalLeavesNoRow(last'.target)
     /\ (last'.op = "teams.delete" /\ TakesEffect(last'))
          => DeletedTeamLeavesNull(last'.target)]_vars

C24_Witness ==
  /\ last.op = "teams.delete"
  /\ last.target = "t1"
  /\ TakesEffect(last)
  /\ authUsers = Principals \ {"u1"}
  /\ OwnedBy(users, "u1") \cup OwnedBy(votes, "u1") \cup OwnedBy(points, "u1")
       \cup OwnedBy(stars, "u1") = {}
  /\ \E b \in breakdown_pts : TRUE
  /\ ~\E b \in breakdown_pts : b.parent_points_id[1] = "u1"
  /\ \E m \in matches : /\ m.team1_id = NULL
                        /\ m.team2_id = "t2"
                        /\ m.winner_id = NULL
  /\ \E v \in votes : v.user_id = "u2" /\ v.vote_team_id = NULL

(***************************************************************************)
(* C25 (Spec): when provisioning creates the Identity Record of a          *)
(* principal from the claims {provider_id, name, full_name?, email?,       *)
(* avatar_url?}, the record's handle is name and its display name is       *)
(* full_name if present, else email if present, else name.                 *)
(***************************************************************************)
C25_HandleAndDisplayName ==
  (last.op \in {"signup", "retry"} /\ last.result = "ok"
     /\ last.stmt = "inserted")
    => LET claims == last.arg.raw_user_meta_data
           email == last.arg.email
       IN  \E row \in users :
             /\ row.user_id = last.target
             /\ row.provider_id = claims.provider_id
             /\ row.oauth_username = claims.name
             /\ row.display_name = IF claims.full_name # NULL
                                     THEN claims.full_name
                                   ELSE IF email # NULL THEN email
                                   ELSE claims.name
             /\ row.display_name # NULL

C25_Witness ==
  /\ last.op = "signup"
  /\ last.result = "ok"
  /\ last.stmt = "inserted"
  /\ last.arg.raw_user_meta_data.full_name = NULL
  /\ last.arg.email \in Emails
  /\ \E row \in users : /\ row.user_id = last.target
                        /\ row.oauth_username = last.arg.raw_user_meta_data.name
                        /\ row.display_name = last.arg.email
  /\ \E other \in users : /\ other.user_id # last.target
                          /\ other.display_name \in FullNames

(***************************************************************************)
(* The OAuth callback route: GET(request).  A string of the request is a   *)
(* sequence of tokens, the separators "/", ":", "@", "." and "?" each      *)
(* being a token of their own, so that startsWith('/') and the             *)
(* concatenation `${origin}${next}` are computed on what the strings hold. *)
(* A query parameter or header is the set of its values: empty when it is  *)
(* absent (searchParams.get and headers.get return null).                  *)
(***************************************************************************)
AuthErrorPath == <<"/", "auth", "/", "error", "?", "error=">>

Origin == <<"https", ":", "/", "/", "app", ".", "io">>

ForwardedHosts == {<<"lb", ".", "io">>}

NextParams ==
  {<< >>, <<"dashboard">>, <<"/", "votes">>, <<"/", "/", "evil", ".", "io">>,
   <<"https", ":", "/", "/", "evil", ".", "io">>, <<"@", "evil", ".", "io">>,
   <<".", "evil", ".", "io">>}

Codes == {"", "c1"}

Optional(S) == {{}} \cup {{x} : x \in S}

CallbackRequests ==
  [code : Optional(Codes), next : Optional(NextParams),
   forwardedHost : Optional(ForwardedHosts),
   NODE_ENV : {"development", "production"}]

startsWith_any(str, prefix) == TRUE

startsWith(str, prefix) ==
  /\ Len(str) >= Len(prefix)
  /\ SubSeq(str, 1, Len(prefix)) = prefix

OrElse(value, default) == IF value = {} THEN default ELSE CHOOSE x \in value : TRUE

Truthy(value) == value # {} /\ value # {""}

Redirect(req, exchangeError, location) ==
  [handler |-> "callback", req |-> req, exchangeError |-> exchangeError,
   status |-> "redirect", location |-> location]

GET(req, exchangeError) ==
  LET param == OrElse(req.next, DashboardPath)
      next == IF ~startsWith(param, <<"/">>) THEN DashboardPath ELSE param
  IN  IF Truthy(req.code)
        THEN IF ~exchangeError
               THEN IF req.NODE_ENV = "development"
                      THEN Redirect(req, exchangeError, Origin \o next)
                    ELSE IF req.forwardedHost # {}
                      THEN Redirect(req, exchangeError,
                                    <<"https", ":", "/", "/">>
                                      \o OrElse(req.forwardedHost, << >>)
                                      \o next)
                    ELSE Redirect(req, exchangeError, Origin \o next)
               ELSE Redirect(req, exchangeError,
                             Origin \o AuthErrorPath \o <<"exchange failed">>)
        ELSE Redirect(req, FALSE,
                      Origin \o AuthErrorPath \o <<"no code provided">>)

(***************************************************************************)
(* The browser sends the callback request; exchangeCodeForSession          *)
(* succeeds or returns an error.                                           *)
(***************************************************************************)
Callback(req, exchangeError) ==
  /\ request = NoRequest
  /\ request' = GET(req, exchangeError)
  /\ UNCHANGED <<authUsers, users, last, ledger, awards, isLoading, logout,
                 router>>

(***************************************************************************)
(* The response has been sent                                              *)
(***************************************************************************)
Respond ==
  /\ request # NoRequest
  /\ request.status \in {"redirect", "rendered"}
  /\ request' = NoRequest
  /\ UNCHANGED <<authUsers, users, last, ledger, awards, isLoading, logout,
                 router>>

(***************************************************************************)
(* DashboardLayout (app/dashboard/layout.tsx): a server render in three    *)
(* awaited steps.  cookie is the principal of the session cookie, if any;  *)
(* redirect() throws, so a redirected render runs nothing after it.        *)
(***************************************************************************)
Cookies == Optional(Principals)

SessionOf(cookie) ==
  IF cookie = {} THEN AnonSession ELSE AuthSession(CHOOSE p \in cookie : TRUE)

LayoutRequest(cookie) ==
  [handler |-> "layout", status |-> "getUser", cookie |-> cookie,
   user |-> NULL, error |-> FALSE, profile |-> {}, fetched |-> FALSE,
   allUsers |-> {}, usersError |-> FALSE, location |-> << >>,
   currentUserProfile |-> {}, otherUsers |-> << >>]

RedirectToLogin(r) == [r EXCEPT !.status = "redirect", !.location = LoginPath]

getUser(cookie, fails) ==
  IF ~fails /\ cookie # {} /\ cookie \subseteq authUsers
    THEN [user |-> CHOOSE p \in cookie : TRUE, error |-> FALSE]
  ELSE [user |-> NULL, error |-> TRUE]

Single(rows) == IF Cardinality(rows) = 1 THEN rows ELSE {}

MissingProfile_never(profile) == FALSE

MissingProfile(profile) == profile = {}

excludeCurrentUser_keeps_all(allUsers, currentUserId) == allUsers

excludeCurrentUser(allUsers, currentUserId) ==
  LET other(user) == user.user_id # currentUserId
  IN  SelectSeq(allUsers, other)

LayoutGetUser(cookie, fails) ==
  /\ request = NoRequest
  /\ LET auth == getUser(cookie, fails)
         r == [LayoutRequest(cookie) EXCEPT !.user = auth.user,
                                            !.error = auth.error]
     IN  request' = IF auth.error \/ auth.user = NULL
                      THEN RedirectToLogin(r)
                    ELSE [r EXCEPT !.status = "selectProfile"]
  /\ UNCHANGED <<authUsers, users, last, ledger, awards, isLoading, logout,
                 router>>

LayoutSelectProfile(fails) ==
  /\ request # NoRequest
  /\ request.status = "selectProfile"
  /\ LET rows == IF fails THEN {}
                 ELSE SelectUsers(SessionOf(request.cookie), users, request.user)
         r == [request EXCEPT !.profile = Single(rows)]
     IN  request' = IF MissingProfile(r.profile)
                      THEN RedirectToLogin(r)
                    ELSE [r EXCEPT !.status = "rpc"]
  /\ UNCHANGED <<authUsers, users, last, ledger, awards, isLoading, logout,
                 router>>

LayoutFetchUsers(fails) ==
  /\ request # NoRequest
  /\ request.status = "rpc"
  /\ LET granted == ~fails /\ HasExecute(SessionOf(request.cookie))
         data == IF granted THEN {get_all_public_profiles(users)} ELSE {}
     IN  request' =
           [request EXCEPT !.status = "rendered",
                           !.fetched = TRUE,
                           !.allUsers = data,
                           !.usersError = ~granted,
                           !.currentUserProfile =
                             {toPublicProfile(row) : row \in request.profile},
                           !.otherUsers =
                             excludeCurrentUser(OrElse(data, << >>),
                                                request.user)]
  /\ UNCHANGED <<authUsers, users, last, ledger, awards, isLoading, logout,
                 router>>

(***************************************************************************)
(* LogoutButton (components/logout-button.tsx).  logout is the state of    *)
(* the latest invocation of the handler: "idle" before the first one,      *)
(* "signOut" while the handler awaits supabase.auth.signOut(), and then    *)
(* the way the await was left.  router is the route last pushed.           *)
(***************************************************************************)
SignOutOutcomes == {"ok", "error", "thrown"}

ButtonProps ==
  [disabled |-> isLoading,
   children |-> IF isLoading THEN "Logging out..." ELSE "Logout"]

(***************************************************************************)
(* What the handler does once the await is left: both the try block and    *)
(* the catch block push the login route, finally clears the flag.          *)
(***************************************************************************)
AfterSignOut_no_catch(outcome) ==
  IF outcome = "thrown"
    THEN [push |-> {}, isLoading |-> TRUE]
  ELSE [push |-> {LoginPath}, isLoading |-> FALSE]

AfterSignOut(outcome) ==
  IF outcome = "thrown"
    THEN [push |-> {LoginPath}, isLoading |-> FALSE]
  ELSE [push |-> {LoginPath}, isLoading |-> FALSE]

(***************************************************************************)
(* onClick: the button is mounted on the dashboard and a disabled button   *)
(* dispatches no click.  createClient() may throw before anything is       *)
(* awaited, and the handler then runs to its end in the same task.         *)
(***************************************************************************)
Click(clientThrows) ==
  /\ router = DashboardPath
  /\ ~ButtonProps.disabled
  /\ IF clientThrows
       THEN /\ router' = OrElse(AfterSignOut("thrown").push, router)
            /\ isLoading' = AfterSignOut("thrown").isLoading
            /\ logout' = "thrown"
       ELSE /\ isLoading' = TRUE
            /\ logout' = "signOut"
            /\ UNCHANGED router
  /\ UNCHANGED <<authUsers, users, last, ledger, awards, request>>

SignOutSettles(outcome) ==
  /\ logout = "signOut"
  /\ router' = OrElse(AfterSignOut(outcome).push, router)
  /\ isLoading' = AfterSignOut(outcome).isLoading
  /\ logout' = outcome
  /\ UNCHANGED <<authUsers, users, last, ledger, awards, request>>

(***************************************************************************)
(* The visitor signs in again: the dashboard mounts a new LogoutButton     *)
(***************************************************************************)
SignIn ==
  /\ router = LoginPath
  /\ logout # "signOut"
  /\ router' = DashboardPath
  /\ isLoading' = FALSE
  /\ UNCHANGED <<authUsers, users, last, ledger, awards, request, logout>>

(***************************************************************************)
(* The web application over a users table the database can hold: every     *)
(* principal exists upstream, some of them have their row, and the user    *)
(* names are distinct.                                                     *)
(***************************************************************************)
SiteUserNames == UserNames \cup {"carol"}

SiteUser(p, name) ==
  ProfileOf([id |-> p, email |-> NULL,
             raw_user_meta_data |->
               [provider_id |-> "d_" \o p, name |-> name,
                full_name |-> NULL, avatar_url |-> NULL]])

InitSite ==
  /\ authUsers = Principals
  /\ \E S \in SUBSET Principals : \E name \in [Principals -> SiteUserNames] :
       /\ \A p, q \in Principals : name[p] = name[q] => p = q
       /\ users = {SiteUser(p, name[p]) : p \in S}
  /\ last = Idle
  /\ teams = {}
  /\ events = {}
  /\ matches = {}
  /\ votes = {}
  /\ points = {}
  /\ breakdown_pts = {}
  /\ now = 0
  /\ sub_events = {}
  /\ stars = {}
  /\ InitWeb

NextSite ==
  \/ \E req \in CallbackRequests : \E exchangeError \in BOOLEAN :
       Callback(req, exchangeError)
  \/ \E cookie \in Cookies : \E fails \in BOOLEAN : LayoutGetUser(cookie, fails)
  \/ \E fails \in BOOLEAN : LayoutSelectProfile(fails)
  \/ \E fails \in BOOLEAN : LayoutFetchUsers(fails)
  \/ Respond
  \/ \E clientThrows \in BOOLEAN : Click(clientThrows)
  \/ \E outcome \in SignOutOutcomes : SignOutSettles(outcome)
  \/ SignIn

SpecSite == InitSite /\ [][NextSite]_vars

(***************************************************************************)
(* The await of signOut is left: the promise settles one way or another    *)
(* and the event loop runs the handler's continuation.                     *)
(***************************************************************************)
SpecSiteFair ==
  SpecSite /\ WF_vars(\E outcome \in SignOutOutcomes : SignOutSettles(outcome))

(***************************************************************************)
(* The host a browser reads in an absolute URL: the authority runs from    *)
(* after "scheme://" to the next "/" or "?", and the host is what follows  *)
(* the last "@" of the authority.                                          *)
(***************************************************************************)
Authority(url) ==
  LET rest == SubSeq(url, 5, Len(url))
      ends == {i \in 1..Len(rest) : rest[i] \in {"/", "?"}}
      stop == IF ends = {} THEN Len(rest) + 1
              ELSE CHOOSE i \in ends : \A j \in ends : i <= j
  IN  SubSeq(rest, 1, stop - 1)

Host(url) ==
  LET authority == Authority(url)
      ats == {i \in 1..Len(authority) : authority[i] = "@"}
      at == IF ats = {} THEN 0 ELSE CHOOSE i \in ats : \A j \in ats : i >= j
  IN  SubSeq(authority, at + 1, Len(authority))

RedirectBases ==
  {Origin} \cup {<<"https", ":", "/", "/">> \o h : h \in ForwardedHosts}

ExchangeSucceeded(r) ==
  /\ r.handler = "callback"
  /\ r.req.code # {}
  /\ r.req.code # {""}
  /\ ~r.exchangeError

RelativeNext(req) == {n \in req.next : n # << >> /\ Head(n) = "/"}

(***************************************************************************)
(* C26: after a successful code exchange the callback redirects to its own *)
(* origin (or the forwarded host) followed by the next parameter when that *)
(* parameter begins with "/", and followed by /dashboard when it is absent *)
(* or begins with anything else; the host of the redirect is never taken   *)
(* from the next parameter.                                                *)
(***************************************************************************)
C26_RelativeNextOnly ==
  ExchangeSucceeded(request) =>
    \E base \in RedirectBases :
      /\ \A n \in RelativeNext(request.req) : request.location = base \o n
      /\ RelativeNext(request.req) = {} =>
           request.location = base \o DashboardPath
      /\ Host(request.location) = Host(base)

C26_Witness ==
  /\ ExchangeSucceeded(request)
  /\ request.req.next = {<<"@", "evil", ".", "io">>}
  /\ request.location = Origin \o DashboardPath

(***************************************************************************)
(* C27: the layout goes on to the directory fetch and the render only for  *)
(* a caller whose user lookup returned a user without error and whose own  *)
(* users row was found; a failed lookup, a missing user or a missing       *)
(* profile row ends in a redirect to /auth/login with no directory fetched *)
(* and nothing rendered.                                                   *)
(***************************************************************************)
LayoutRefused(r) ==
  \/ r.error
  \/ r.user = NULL
  \/ r.status # "selectProfile" /\ r.profile = {}

C27_LayoutGuardsDashboard ==
  request.handler = "layout" =>
    /\ (request.status \in {"rpc", "rendered"} \/ request.fetched) =>
         /\ ~request.error
         /\ request.cookie = {request.user}
         /\ request.user \in authUsers
         /\ HasRow(users, request.user)
         /\ request.profile = {RowOf(users, request.user)}
    /\ request.status = "rendered" =>
         request.currentUserProfile =
           {toPublicProfile(RowOf(users, request.user))}
    /\ LayoutRefused(request) =>
         /\ request.status = "redirect"
         /\ request.location = LoginPath
         /\ ~request.fetched
         /\ request.allUsers = {}
         /\ request.currentUserProfile = {}
         /\ request.otherUsers = << >>

C27_Witness ==
  /\ request.handler = "layout"
  /\ request.status = "redirect"
  /\ ~request.error
  /\ request.user \in authUsers
  /\ ~HasRow(users, request.user)
  /\ request.location = LoginPath
  /\ ~request.fetched

(***************************************************************************)
(* C29: the otherUsers handed to the sidebar hold no entry of the current  *)
(* user, hold every other entry of the fetched directory listing in the    *)
(* order of the listing, and are the empty list when the fetch failed.     *)
(***************************************************************************)
IsRestOf(other, listing, uid) ==
  \E pos \in [1..Len(other) -> 1..Len(listing)] :
    /\ \A i, j \in 1..Len(other) : i < j => pos[i] < pos[j]
    /\ \A i \in 1..Len(other) : other[i] = listing[pos[i]]
    /\ \A j \in 1..Len(listing) :
         listing[j].user_id # uid => \E i \in 1..Len(other) : pos[i] = j

C29_OtherUsers ==
  (request.handler = "layout" /\ request.status = "rendered") =>
    /\ \A i \in 1..Len(request.otherUsers) :
         request.otherUsers[i].user_id # request.user
    /\ ~request.usersError =>
         /\ request.allUsers = {get_all_public_profiles(users)}
         /\ IsRestOf(request.otherUsers, get_all_public_profiles(users),
                     request.user)
    /\ request.usersError => request.otherUsers = << >>

C29_Witness ==
  /\ request.handler = "layout"
  /\ request.status = "rendered"
  /\ ~request.usersError
  /\ \E listing \in request.allUsers :
       /\ Len(listing) >= 2
       /\ listing[1].user_id = request.user
       /\ request.otherUsers = Tail(listing)

(***************************************************************************)
(* C28: every invocation of logout ends, however signOut leaves its await, *)
(* with the login route pushed and isLoading false again; the button is    *)
(* disabled exactly while isLoading is true, which is exactly while an     *)
(* invocation is in flight.                                                *)
(***************************************************************************)
LogoutEnded == logout \in SignOutOutcomes /\ router = LoginPath /\ ~isLoading

C28_LogoutCompletes ==
  /\ [](logout = "signOut" => <>LogoutEnded)
  /\ [][logout' # logout /\ logout' \in SignOutOutcomes => LogoutEnded']_vars
  /\ [](ButtonProps.disabled <=> isLoading)
  /\ [](isLoading <=> logout = "signOut")

C28_Witness == logout = "thrown" /\ router = LoginPath /\ ~isLoading

=============================================================================
